---- MODULE Spec2Model ----
(***************************************************************************)
(* A model of the Scanner-Alert repository: the alert conditions and the   *)
(* AND-gated condition set (src/conditions.py), the per-symbol live        *)
(* monitor and scanner (src/realtime_scanner.py) and the backtest replay   *)
(* (src/backtest_scanner.py).                                              *)
(*                                                                         *)
(* Encoding.                                                               *)
(*  - Time is an integer count of 100 ms units (one unit = the jitter      *)
(*    buffer of conditions.py:118), so a second is 10 units.               *)
(*  - Prices and volumes are integers.  A float quotient a/b is kept as    *)
(*    the pair [num |-> a, den |-> b] and compared by cross               *)
(*    multiplication; float rounding is not modelled.                      *)
(*  - Python's None is the value None (-1) for an optional time, price or  *)
(*    volume, and NoVWAP (den = 0) for an optional VWAP.                   *)
(*  - Percent thresholds are in tenths of a percent (0.7 % is 7).          *)
(*  - A dict is a sequence of <<key, value>> pairs with distinct keys in   *)
(*    insertion order, as Python iterates it.                              *)
(*  - A formatted reason string is the pair <<text, price>> of the branch  *)
(*    that wrote it and the price it prints (0 when it prints none).       *)
(***************************************************************************)
EXTENDS Integers, Sequences, FiniteSets, TLC

(***************************************************************************)
(* Program constants                                                       *)
(***************************************************************************)
buffer == 1
WINDOW_SEC == 5
THRESH_1 == 7
THRESH_2 == 9
MAX_SPREAD_PCT == 5
PRICE_SURGE_THRESHOLD == 20
VOLUME_SURGE_THRESHOLD == 5
PastWindows == 20
ConfirmMultiplier == 2
alert_cooldown_seconds == 5

Seconds(n) == n * 10 * buffer

None == 0 - 1
NoVWAP == [num |-> 0, den |-> 0]
Quot(a, b) == [num |-> a, den |-> b]

NoReason == <<"", 0>>

(***************************************************************************)
(* Sequence and dict helpers                                               *)
(***************************************************************************)
RECURSIVE SumSeq(_)
SumSeq(s) == IF s = <<>> THEN 0 ELSE Head(s) + SumSeq(Tail(s))

Range(s) == {s[i] : i \in 1..Len(s)}

\* max(s) and min(s) of a non-empty list
MaxSeq(s) == CHOOSE x \in Range(s) : \A y \in Range(s) : x >= y
MinSeq(s) == CHOOSE x \in Range(s) : \A y \in Range(s) : x <= y

Values(d) == [i \in 1..Len(d) |-> d[i][2]]
Keys(d) == [i \in 1..Len(d) |-> d[i][1]]
HasKey(d, k) == \E i \in 1..Len(d) : d[i][1] = k

\* d[k] = v on a dict: an existing key keeps its place and takes the new value.
DictSet(d, k, v) ==
    IF HasKey(d, k)
    THEN [i \in 1..Len(d) |-> IF d[i][1] = k THEN <<k, v>> ELSE d[i]]
    ELSE Append(d, <<k, v>>)

\* {k: v for k, v in pairs}: a key stands where it first appears and holds
\* the value of its last appearance.
DictOf(pairs) ==
    LET n == Len(pairs)
        firsts == SelectSeq([i \in 1..n |-> i],
                            LAMBDA i : \A j \in 1..(i - 1) : pairs[j][1] # pairs[i][1])
    IN [k \in 1..Len(firsts) |->
           LET key == pairs[firsts[k]][1]
               last == CHOOSE j \in 1..n :
                           /\ pairs[j][1] = key
                           /\ \A j2 \in (j + 1)..n : pairs[j2][1] # key
           IN <<key, pairs[last][2]>>]

\* sorted(d.items()): ascending keys (keys are distinct).
SortByKey(d) ==
    IF \A i \in 1..(Len(d) - 1) : d[i][1] < d[i + 1][1] THEN d
    ELSE [i \in 1..Len(d) |->
             CHOOSE e \in Range(d) : Cardinality({f \in Range(d) : f[1] < e[1]}) = i - 1]

\* [v for ts, v in d.items() if lo <= ts <= hi]
InRange(d, lo, hi) == Values(SelectSeq(d, LAMBDA e : lo <= e[1] /\ e[1] <= hi))

(***************************************************************************)
(* MarketData and the conditions (src/conditions.py)                       *)
(***************************************************************************)
MarketData(price, volume, vwap, timestamp, bid, ask, price_history, volume_history) ==
    [price |-> price, volume |-> volume, vwap |-> vwap, timestamp |-> timestamp,
     bid |-> bid, ask |-> ask,
     price_history |-> price_history, volume_history |-> volume_history]

\* The outcome of one check(): what it returned, whether it raised instead,
\* and the condition's triggered_reason afterwards.
Outcome(ret, raised, reason) == [ret |-> ret, raised |-> raised, reason |-> reason]

\* The constructors of the parameterised conditions: the object keeps the
\* arguments as given.
TwoStepMomentumCondition(t1, t2, window) ==
    [kind |-> "TwoStepMomentum", triggered_reason |-> NoReason,
     t1 |-> t1, t2 |-> t2, window |-> window]

VolumeSpike10sCondition(spike_threshold) ==
    [kind |-> "VolumeSpike10s", triggered_reason |-> NoReason,
     spike_threshold |-> spike_threshold]

VolumeConfirmationCondition(multiplier) ==
    [kind |-> "VolumeConfirmation", triggered_reason |-> NoReason,
     multiplier |-> multiplier]

\* A condition object built with the default arguments of its class: its
\* class, its triggered_reason field and its parameters.
Condition(kind) ==
    CASE kind = "TwoStepMomentum" -> TwoStepMomentumCondition(THRESH_1, THRESH_2, WINDOW_SEC)
      [] kind = "VolumeSpike10s" -> VolumeSpike10sCondition(VOLUME_SURGE_THRESHOLD)
      [] kind = "VolumeConfirmation" -> VolumeConfirmationCondition(ConfirmMultiplier)
      [] OTHER -> [kind |-> kind, triggered_reason |-> NoReason]

PriceAboveVWAP_check(c, data) ==
    IF data.vwap = NoVWAP
    THEN Outcome(FALSE, TRUE, c.triggered_reason)      \* None <= 0: TypeError
    ELSE IF data.vwap.num <= 0
    THEN Outcome(TRUE, FALSE, <<"VWAP N/A (0.0)", 0>>)
    ELSE IF data.price * data.vwap.den > data.vwap.num
    THEN Outcome(TRUE, FALSE, <<"Price > VWAP", data.price>>)
    ELSE Outcome(FALSE, FALSE, NoReason)

\* r >= t for the return r = (to - from) / from * 100 and t in tenths of a percent
ReturnAtLeast(from, to, t) == (to - from) * 1000 >= t * from

\* A coarse check that does not look at the rolling high
CoarseCheck_NoHigh(c, data, p_10s_ago, high_10s) ==
    /\ p_10s_ago # <<>>
    /\ ReturnAtLeast(p_10s_ago[1], data.price, c.t1 + c.t2)

\* A coarse check that measures the return from the oldest sample held
CoarseCheck_FromOldest(c, data, p_10s_ago, high_10s) ==
    /\ data.price_history # <<>>
    /\ ReturnAtLeast(data.price_history[1][2], data.price, c.t1 + c.t2)
    /\ data.price >= high_10s

\* The fallback of TwoStepMomentumCondition.check when a sub-window is empty:
\* the total return since the price 10 s ago against the sum of the thresholds
CoarseCheck(c, data, p_10s_ago, high_10s) ==
    /\ p_10s_ago # <<>>
    /\ ReturnAtLeast(p_10s_ago[1], data.price, c.t1 + c.t2)
    /\ data.price >= high_10s

TwoStepMomentum_check(c, data) ==
    LET now == data.timestamp
        h == data.price_history
        w1_start == now - Seconds(c.window * 2)
        w1_end == now - Seconds(c.window)
        w2_start == w1_end
        w2_end == now
        p_w1 == InRange(h, w1_start - buffer, w1_end + buffer)
        p_w2 == InRange(h, w2_start - buffer, w2_end + buffer)
        p_prev_10s == InRange(h, w1_start - buffer, now - buffer - 1)
        high_10s == IF p_prev_10s # <<>> THEN MaxSeq(p_prev_10s) ELSE 0
        p_10s_ago == InRange(h, w1_start - buffer, w1_start + buffer)
        fallback == p_w1 = <<>> \/ p_w2 = <<>>
        is_triggered ==
            IF fallback
            THEN CoarseCheck(c, data, p_10s_ago, high_10s)
            ELSE /\ ReturnAtLeast(p_w1[1], p_w1[Len(p_w1)], c.t1)
                 /\ ReturnAtLeast(p_w2[1], data.price, c.t2)
                 /\ data.price >= high_10s
    IN IF Len(h) < 2 THEN Outcome(FALSE, FALSE, c.triggered_reason)
       ELSE IF is_triggered THEN Outcome(TRUE, FALSE, <<"SIGNAL", data.price>>)
       ELSE Outcome(FALSE, FALSE, c.triggered_reason)

passes_spread_filter(best_bid, best_ask, price) ==
    IF best_bid <= 0 \/ best_ask <= 0 \/ price <= 0 THEN TRUE
    ELSE (best_ask - best_bid) * 1000 <= MAX_SPREAD_PCT * price

\* The greedy 10-second grouping of VolumeSpike10sCondition.check: st is
\* <<windows closed so far, current_window_start, current_window_vol>>.
RECURSIVE GroupWindows(_, _)
GroupWindows(sorted, st) ==
    IF sorted = <<>> THEN st
    ELSE LET ts == sorted[1][1]
             vol == sorted[1][2]
             next ==
                 IF st[2] = None THEN <<st[1], ts, vol>>
                 ELSE IF ts - st[2] <= Seconds(10) THEN <<st[1], st[2], st[3] + vol>>
                 ELSE <<Append(st[1], st[3]), ts, vol>>
         IN GroupWindows(Tail(sorted), next)

ten_sec_windows(volume_history) ==
    LET st == GroupWindows(SortByKey(volume_history), <<(<<>>), None, 0>>)
    IN IF st[3] > 0 THEN Append(st[1], st[3]) ELSE st[1]

VolumeSpike10s_check(c, data) ==
    LET w == ten_sec_windows(data.volume_history)
        n == Len(w)
        current_10s_vol == w[n]
        past_sum == SumSeq(SubSeq(w, n - PastWindows, n - 1))
    IN IF Len(data.volume_history) < PastWindows + 1 THEN Outcome(FALSE, FALSE, NoReason)
       ELSE IF n < PastWindows + 1 THEN Outcome(FALSE, FALSE, NoReason)
       ELSE IF past_sum = 0 THEN Outcome(FALSE, FALSE, NoReason)
       ELSE IF current_10s_vol * PastWindows >= c.spike_threshold * past_sum
       THEN Outcome(TRUE, FALSE, <<"10s volume spike", 0>>)
       ELSE Outcome(FALSE, FALSE, NoReason)

\* A confirmation that compares with the average also when the average is zero
VolumeConfirmation_check_ZeroAverage(c, data) ==
    LET sorted_vols == Values(SortByKey(data.volume_history))
        n == Len(sorted_vols)
        current_vol == sorted_vols[n]
        prev_vol == sorted_vols[n - 1]
        sum_vol == SumSeq(SubSeq(sorted_vols, n - PastWindows - 1, n - 2))
    IN IF n < PastWindows + 2 THEN Outcome(FALSE, FALSE, c.triggered_reason)
       ELSE IF /\ current_vol * PastWindows > sum_vol * c.multiplier
               /\ prev_vol * PastWindows > sum_vol * c.multiplier
       THEN Outcome(TRUE, FALSE, <<"Sustained volume", 0>>)
       ELSE Outcome(FALSE, FALSE, c.triggered_reason)

VolumeConfirmation_check(c, data) ==
    LET sorted_vols == Values(SortByKey(data.volume_history))
        n == Len(sorted_vols)
        current_vol == sorted_vols[n]
        prev_vol == sorted_vols[n - 1]
        sum_vol == SumSeq(SubSeq(sorted_vols, n - PastWindows - 1, n - 2))
    IN IF n < PastWindows + 2 THEN Outcome(FALSE, FALSE, c.triggered_reason)
       ELSE IF /\ sum_vol > 0
               /\ current_vol * PastWindows > sum_vol * c.multiplier
               /\ prev_vol * PastWindows > sum_vol * c.multiplier
       THEN Outcome(TRUE, FALSE, <<"Sustained volume", 0>>)
       ELSE Outcome(FALSE, FALSE, c.triggered_reason)

\* PriceSurgeCondition is imported by both scanners but is not defined in
\* src/conditions.py; it is modelled from the specification: a rise of at least
\* the threshold over the minimum price of the trailing 10 s window.
PriceSurge_check(c, data) ==
    LET now == data.timestamp
        recent == InRange(data.price_history, now - Seconds(10) - buffer, now + buffer)
    IN IF recent = <<>> THEN Outcome(FALSE, FALSE, NoReason)
       ELSE IF ReturnAtLeast(MinSeq(recent), data.price, PRICE_SURGE_THRESHOLD)
       THEN Outcome(TRUE, FALSE, <<"Price surge", data.price>>)
       ELSE Outcome(FALSE, FALSE, NoReason)

\* condition.check(data), dispatched on the class of the condition
check(c, data) ==
    CASE c.kind = "PriceAboveVWAP" -> PriceAboveVWAP_check(c, data)
      [] c.kind = "TwoStepMomentum" -> TwoStepMomentum_check(c, data)
      [] c.kind = "VolumeSpike10s" -> VolumeSpike10s_check(c, data)
      [] c.kind = "VolumeConfirmation" -> VolumeConfirmation_check(c, data)
      [] c.kind = "PriceSurge" -> PriceSurge_check(c, data)

(***************************************************************************)
(* AlertConditionSet (src/conditions.py)                                   *)
(***************************************************************************)
AlertConditionSet == [conditions |-> <<>>, triggered_reasons |-> <<>>]

add_condition(set, c) == [set EXCEPT !.conditions = Append(@, c)]

\* The member loop of check_all from member i on.  members is the list with
\* the triggered_reason fields written so far, reasons the reasons appended
\* so far.  The result names how the loop ended: "raise", "fail" (a member
\* returned False) or "end" (the list is exhausted).
RECURSIVE MemberLoop(_, _, _, _)

\* Member i, whose check had the outcome o
MemberChecked(members, data, i, reasons, o) ==
    LET written == [members EXCEPT ![i].triggered_reason = o.reason]
    IN IF o.raised
       THEN [how |-> "raise", conditions |-> written, reasons |-> reasons]
       ELSE IF o.ret
       THEN MemberLoop(written, data, i + 1, Append(reasons, o.reason))
       ELSE [how |-> "fail", conditions |-> written, reasons |-> reasons]

MemberLoop(members, data, i, reasons) ==
    IF i > Len(members)
    THEN [how |-> "end", conditions |-> members, reasons |-> reasons]
    ELSE IF members[i].kind = "PriceAboveVWAP"
    THEN MemberLoop(members, data, i + 1, reasons)
    ELSE MemberChecked(members, data, i, reasons, check(members[i], data))

\* A check_all that returns True whenever the member loop has ended
ReasonsRecorded_AlwaysTrue(reasons) == TRUE

\* Whether check_all returns True once the member loop has ended.
ReasonsRecorded(reasons) == reasons # <<>>

\* check_all once the gate had the outcome vwap_cond; loop is what the member
\* loop does when it is reached.
CheckAllOutcome(set, data, vwap_cond, loop) ==
    LET cleared == [set EXCEPT !.triggered_reasons = <<>>]
        after == [conditions |-> loop.conditions, triggered_reasons |-> loop.reasons]
    IN IF vwap_cond.raised THEN [ret |-> "raise", set |-> cleared]
       ELSE IF ~vwap_cond.ret THEN [ret |-> "False", set |-> cleared]
       ELSE IF ~passes_spread_filter(data.bid, data.ask, data.price)
       THEN [ret |-> "False", set |-> cleared]
       ELSE IF loop.how = "raise" THEN [ret |-> "raise", set |-> after]
       ELSE IF loop.how = "fail" THEN [ret |-> "False", set |-> after]
       ELSE IF ReasonsRecorded(loop.reasons)
       THEN [ret |-> "True",
             set |-> [after EXCEPT !.triggered_reasons = <<vwap_cond.reason>> \o @]]
       ELSE [ret |-> "False", set |-> after]

\* check_all(data): ret is "True", "False" or "raise"; set is the condition
\* set afterwards.
check_all(set, data) ==
    CheckAllOutcome(set, data,
                    PriceAboveVWAP_check(Condition("PriceAboveVWAP"), data),
                    MemberLoop(set.conditions, data, 1, <<>>))

\* get_trigger_summary(): the reasons joined; the join is kept as the list.
get_trigger_summary(set) == set.triggered_reasons

(***************************************************************************)
(* Bounds of the model                                                     *)
(***************************************************************************)
MaxMembers == 2
SnapshotTime == 2500

ConditionKinds ==
    {"PriceAboveVWAP", "TwoStepMomentum", "VolumeSpike10s", "VolumeConfirmation",
     "PriceSurge"}

(***************************************************************************)
(* Snapshots given to a condition set under test.  Each history ends with  *)
(* the current sample, as the snapshots of both scanners do.               *)
(***************************************************************************)
SnapshotPrices == {100, 102}
SnapshotVWAPs == {NoVWAP, Quot(0, 1), Quot(101, 1)}
SnapshotQuotes == {<<0, 0>>, <<100, 100>>, <<99, 101>>}

\* A quiet history (a lone current sample), or an active one: a rise
\* 100 -> 101 over the first window before the current sample, and 22 volume
\* samples 10.1 s apart, twenty of volume 10 and the last two of volume 100.
SnapshotHistories(price) ==
    {[price_history |-> <<<<SnapshotTime, price>>>>,
      volume_history |-> <<<<SnapshotTime, 10>>>>],
     [price_history |->
          <<<<SnapshotTime - Seconds(10), 100>>, <<SnapshotTime - Seconds(5), 101>>,
            <<SnapshotTime, price>>>>,
      volume_history |->
          [i \in 1..(PastWindows + 2) |->
              <<SnapshotTime - (PastWindows + 2 - i) * (Seconds(10) + 1),
                IF i > PastWindows THEN 100 ELSE 10>>]],
     [price_history |-> <<<<SnapshotTime, price>>>>,
      volume_history |->
          [i \in 1..(PastWindows + 2) |->
              <<SnapshotTime - (PastWindows + 2 - i) * (Seconds(10) + 1),
                IF i = PastWindows + 2 THEN 0 ELSE IF i > PastWindows THEN 100 ELSE 10>>]]}

Snapshots ==
    UNION {{MarketData(p, 1000, v, SnapshotTime, q[1], q[2],
                       h.price_history, h.volume_history) :
               v \in SnapshotVWAPs, q \in SnapshotQuotes, h \in SnapshotHistories(p)} :
           p \in SnapshotPrices}

(***************************************************************************)
(* The state: a condition set under test, a live scanner, the threads on   *)
(* it, and a backtest scanner.  Each operation changes the state of its    *)
(* own object and leaves the others alone.                                 *)
(***************************************************************************)
VARIABLES condition_set, cs_data, cs_ret

VARIABLES now, monitors, update_count, alerts, last_eval, ingested, ops

VARIABLES lock, pc, local

VARIABLES symbol_data, condition_sets, backtest_alerts, runs

VARIABLES current_assets, scenarios

VARIABLES realtime_data, alert_quotes

VARIABLES call

VARIABLES set_ref, set_objects, acted
\* The alert callbacks of the scanner and what the last dispatch did
VARIABLES alert_callbacks, dispatched

VARIABLES should_exit, main_pc, realtime_callbacks, req_id_counter, tws_connected, last_table_update, alerts_displayed, iterations

csvars == <<condition_set, cs_data, cs_ret>>
livevars == <<now, monitors, update_count, alerts, last_eval, ingested, ops>>
concvars == <<lock, pc, local>>
btvars == <<symbol_data, condition_sets, backtest_alerts, runs>>
plvars == <<current_assets, scenarios>>
mainvars == <<should_exit, main_pc, realtime_callbacks, req_id_counter, tws_connected, last_table_update, alerts_displayed, iterations>>
feedvars == <<realtime_data, alert_quotes>>
apivars == <<call>>
aliasvars == <<set_ref, set_objects, acted>>
cbvars == <<alert_callbacks, dispatched>>
vars == <<csvars, livevars, concvars, btvars, plvars, mainvars, feedvars, apivars, aliasvars, cbvars>>

CSFrame == UNCHANGED <<livevars, concvars, btvars, plvars, mainvars, feedvars, apivars, aliasvars, cbvars>>
LiveFrame == UNCHANGED <<csvars, concvars, btvars, plvars, mainvars, feedvars, apivars, aliasvars, cbvars>>
ConcFrame == UNCHANGED <<csvars, btvars, plvars, mainvars, feedvars, apivars, aliasvars, cbvars>>
BacktestFrame == UNCHANGED <<csvars, livevars, concvars, plvars, mainvars, feedvars, apivars, aliasvars, cbvars>>
PLFrame == UNCHANGED <<csvars, livevars, concvars, mainvars, feedvars, apivars, aliasvars, cbvars>>
MainFrame == UNCHANGED <<csvars, concvars, btvars, plvars, feedvars, apivars, aliasvars, cbvars>>
FeedFrame == UNCHANGED <<csvars, concvars, btvars, plvars, mainvars, apivars, aliasvars, cbvars>>
ApiFrame == UNCHANGED <<csvars, concvars, plvars, mainvars, feedvars, aliasvars, cbvars>>
AliasFrame == UNCHANGED <<csvars, concvars, btvars, plvars, mainvars, feedvars, apivars, cbvars>>
DispatchFrame == UNCHANGED <<csvars, concvars, btvars, plvars, mainvars, feedvars, apivars, aliasvars>>

(***************************************************************************)
(* A condition set under test: add_condition and check_all                 *)
(***************************************************************************)
CSInit ==
    /\ condition_set = AlertConditionSet
    /\ cs_data = MarketData(100, 0, NoVWAP, 0, 0, 0, <<>>, <<>>)
    /\ cs_ret = "none"

\* cs_ret is the value the last call returned when that call was check_all.
CSAddCondition(kind) ==
    /\ Len(condition_set.conditions) < MaxMembers
    /\ condition_set' = add_condition(condition_set, Condition(kind))
    /\ cs_ret' = "none"
    /\ UNCHANGED cs_data
    /\ CSFrame

CSCheckAll(data) ==
    \E r \in {check_all(condition_set, data)} :
       /\ condition_set' = r.set
       /\ cs_data' = data
       /\ cs_ret' = r.ret
       /\ CSFrame

CSNext ==
    \/ \E kind \in ConditionKinds : CSAddCondition(kind)
    \/ \E data \in Snapshots : CSCheckAll(data)

(***************************************************************************)
(* Conditions built with arguments of the caller's choosing                *)
(***************************************************************************)
\* The arguments a caller constructs the conditions with: the defaults, a
\* zero or negative threshold, and a window of no length.
MomentumArguments == {<<THRESH_1, THRESH_2, WINDOW_SEC>>, <<0, THRESH_2, WINDOW_SEC>>, <<THRESH_1, 0 - THRESH_2, WINDOW_SEC>>, <<THRESH_1, THRESH_2, 0>>}
SpikeArguments == {VOLUME_SURGE_THRESHOLD, 0}
ConfirmationArguments == {ConfirmMultiplier, 0 - ConfirmMultiplier}

ConstructedConditions ==
    {TwoStepMomentumCondition(a[1], a[2], a[3]) : a \in MomentumArguments}
        \cup {VolumeSpike10sCondition(a) : a \in SpikeArguments}
        \cup {VolumeConfirmationCondition(a) : a \in ConfirmationArguments}

\* add_condition with a condition the caller has constructed
CSAddConstructed(c) ==
    /\ Len(condition_set.conditions) < MaxMembers
    /\ condition_set' = add_condition(condition_set, c)
    /\ cs_ret' = "none"
    /\ UNCHANGED cs_data
    /\ CSFrame

ConfigNext ==
    \/ \E c \in ConstructedConditions : CSAddConstructed(c)
    \/ \E data \in Snapshots : CSCheckAll(data)

(***************************************************************************)
(* The windowed conditions on snapshots of a caller's making.  check takes *)
(* any MarketData: the history need not hold the current sample.           *)
(***************************************************************************)
WindowedKinds == {"TwoStepMomentum", "VolumeSpike10s", "VolumeConfirmation"}

WindowPrices == {101, 102}

\* Price histories around the snapshot time t for the current price: none,
\* the current sample alone, a rise over both windows, the same with a
\* higher price 2 s or 0.1 s before t, a flat first window, samples in the
\* second window only, and samples in the first window only (two, with or
\* without a higher price, or one).
PriceHistories(t, price) ==
    {<<>>,
     <<<<t, price>>>>,
     <<<<t - Seconds(10), 100>>, <<t - Seconds(5), 101>>, <<t, price>>>>,
     <<<<t - Seconds(10), 100>>, <<t - Seconds(5), 101>>, <<t - Seconds(2), 103>>, <<t, price>>>>,
     <<<<t - Seconds(10), 100>>, <<t - Seconds(5), 101>>, <<t - buffer, 103>>, <<t, price>>>>,
     <<<<t - Seconds(10), 100>>, <<t - Seconds(5), 100>>, <<t, price>>>>,
     <<<<t - Seconds(2), 100>>, <<t, price>>>>,
     <<<<t - Seconds(10), 100>>, <<t - Seconds(9), 100>>>>,
     <<<<t - Seconds(10), 100>>, <<t - Seconds(8), 103>>>>,
     <<<<t - Seconds(10), 100>>>>}

\* n volume samples up to the time t, gap apart, the last tail of them of
\* volume last and the others of volume base
VolumeSamples(t, n, tail, gap, base, last) ==
    [i \in 1..n |-> <<t - (n - i) * gap, IF i > n - tail THEN last ELSE base>>]

\* Volume histories: none; 22 samples 10.1 s apart, or 1 s apart, ending
\* in a surge; 22 quiet samples; 22 and 21 samples that end a silence; 21
\* samples 1 s apart; 20 samples.
VolumeHistories(t) ==
    {<<>>,
     VolumeSamples(t, PastWindows + 2, 2, Seconds(10) + 1, 10, 100),
     VolumeSamples(t, PastWindows + 2, 2, Seconds(1), 10, 100),
     VolumeSamples(t, PastWindows + 2, 2, Seconds(10) + 1, 10, 10),
     VolumeSamples(t, PastWindows + 2, 2, Seconds(10) + 1, 0, 100),
     VolumeSamples(t, PastWindows + 1, 1, Seconds(10) + 1, 0, 100),
     VolumeSamples(t, PastWindows + 1, 1, Seconds(1), 10, 100),
     VolumeSamples(t, PastWindows, 1, Seconds(10) + 1, 10, 100)}

\* The snapshots: VWAP 0.0 and no quote, so that both gates pass.  Every
\* price history comes with a surge of volume, every volume history with
\* the current price alone.
WindowSnapshot(p, ph, vh) == MarketData(p, 1000, Quot(0, 1), SnapshotTime, 0, 0, ph, vh)

WindowSnapshots ==
    UNION {{WindowSnapshot(p, ph, VolumeSamples(SnapshotTime, PastWindows + 2, 2, Seconds(10) + 1, 10, 100)) :
               ph \in PriceHistories(SnapshotTime, p)} \cup
           {WindowSnapshot(p, <<<<SnapshotTime, p>>>>, vh) : vh \in VolumeHistories(SnapshotTime)} :
           p \in WindowPrices}

WindowsNext ==
    \/ \E kind \in WindowedKinds : CSAddCondition(kind)
    \/ \E data \in WindowSnapshots : CSCheckAll(data)


(***************************************************************************)
(* RealtimeSymbolMonitor (src/realtime_scanner.py)                         *)
(***************************************************************************)
max_history_size == 4

\* A deque that turns the new entry away when it is full
DequeAppend_KeepOldest(q, e) ==
    IF Len(q) >= max_history_size THEN q ELSE Append(q, e)

\* deque(maxlen).append: the oldest entry leaves when the deque is full
DequeAppend(q, e) ==
    IF Len(q) >= max_history_size THEN Tail(q) \o <<e>> ELSE Append(q, e)

RealtimeSymbolMonitor(set) ==
    [condition_set |-> set,
     price_history |-> <<>>, volume_history |-> <<>>,
     cumulative_pv |-> 0, cumulative_volume |-> 0,
     last_price |-> None, last_volume |-> None, last_vwap |-> NoVWAP,
     last_bar_volume |-> None, last_update |-> None,
     last_alert_time |-> None]

\* The volume of one update is the day's cumulative volume; the increment is
\* its difference to the last one seen.
VolumeIncrement(m, volume) ==
    IF m.last_volume # None THEN volume - m.last_volume ELSE volume

\* A VWAP that is the price of the last sample of positive increment
AccumulateVWAP_PerSample(m, price, volume_increment) ==
    IF volume_increment > 0
    THEN [m EXCEPT !.cumulative_pv = @ + price * volume_increment,
                   !.cumulative_volume = @ + volume_increment,
                   !.last_vwap = Quot(price * volume_increment, volume_increment)]
    ELSE m

\* An accumulator that takes every increment, whatever its sign
AccumulateVWAP_Unguarded(m, price, volume_increment) ==
    LET pv == m.cumulative_pv + price * volume_increment
        vol == m.cumulative_volume + volume_increment
    IN [m EXCEPT !.cumulative_pv = pv, !.cumulative_volume = vol,
                 !.last_vwap = IF vol > 0 THEN Quot(pv, vol) ELSE @]

\* The cumulative VWAP update of update_market_data
AccumulateVWAP(m, price, volume_increment) ==
    IF volume_increment > 0
    THEN LET pv == m.cumulative_pv + price * volume_increment
             vol == m.cumulative_volume + volume_increment
         IN [m EXCEPT !.cumulative_pv = pv, !.cumulative_volume = vol,
                      !.last_vwap = IF vol > 0 THEN Quot(pv, vol) ELSE @]
    ELSE m

update_market_data(m, price, volume, timestamp) ==
    LET volume_increment == VolumeIncrement(m, volume)
        acc == AccumulateVWAP(m, price, volume_increment)
    IN [acc EXCEPT !.price_history = DequeAppend(@, <<timestamp, price>>),
                   !.volume_history = DequeAppend(@, <<timestamp, volume_increment>>),
                   !.last_price = price,
                   !.last_volume = volume,
                   !.last_bar_volume = volume_increment,
                   !.last_update = timestamp]

\* One bar of load_historical_intraday: bar is [date, close, volume].
LoadBar(m, bar) ==
    [m EXCEPT !.cumulative_pv = @ + bar.close * bar.volume,
              !.cumulative_volume = @ + bar.volume,
              !.price_history = DequeAppend(@, <<bar.date, bar.close>>),
              !.volume_history = DequeAppend(@, <<bar.date, bar.volume>>),
              !.last_price = bar.close,
              !.last_bar_volume = bar.volume,
              !.last_update = bar.date]

RECURSIVE LoadBars(_, _)
LoadBars(m, bars) ==
    IF bars = <<>> THEN m ELSE LoadBars(LoadBar(m, Head(bars)), Tail(bars))

load_historical_intraday(m, bars) ==
    LET loaded == LoadBars(m, bars)
    IN IF loaded.cumulative_volume > 0
       THEN [loaded EXCEPT
                !.last_vwap = Quot(loaded.cumulative_pv, loaded.cumulative_volume),
                !.last_volume = loaded.cumulative_volume]
       ELSE loaded

\* get_market_data() when last_price is not None; bid and ask keep the
\* defaults of MarketData.
get_market_data(m) ==
    MarketData(m.last_price, m.last_volume, m.last_vwap, m.last_update, 0, 0,
               DictOf(m.price_history), DictOf(m.volume_history))

\* The cooldown test of check_conditions at clock time t
CooldownElapsed(m, t) ==
    \/ m.last_alert_time = None
    \/ t - m.last_alert_time > Seconds(alert_cooldown_seconds)

NotTriggered == [triggered |-> FALSE, raised |-> FALSE, reasons |-> <<>>]

\* An evaluation that restarts the cooldown whenever the condition set is true
ConditionsChecked_Restart(m, t, r) ==
    LET checked == [m EXCEPT !.condition_set = r.set]
    IN IF r.ret = "raise"
       THEN [monitor |-> checked, set_ret |-> r.ret,
             result |-> [NotTriggered EXCEPT !.raised = TRUE]]
       ELSE IF r.ret = "True"
       THEN [monitor |-> [checked EXCEPT !.last_alert_time = t],
             set_ret |-> r.ret,
             result |-> IF CooldownElapsed(m, t)
                        THEN [triggered |-> TRUE, raised |-> FALSE,
                              reasons |-> get_trigger_summary(r.set)]
                        ELSE NotTriggered]
       ELSE [monitor |-> checked, result |-> NotTriggered, set_ret |-> r.ret]

\* check_conditions() from the call of check_all on, r being what check_all did
ConditionsChecked(m, t, r) ==
    LET checked == [m EXCEPT !.condition_set = r.set]
    IN IF r.ret = "raise"
       THEN [monitor |-> checked, set_ret |-> r.ret,
             result |-> [NotTriggered EXCEPT !.raised = TRUE]]
       ELSE IF r.ret = "True" /\ CooldownElapsed(m, t)
       THEN [monitor |-> [checked EXCEPT !.last_alert_time = t],
             set_ret |-> r.ret,
             result |-> [triggered |-> TRUE, raised |-> FALSE,
                         reasons |-> get_trigger_summary(r.set)]]
       ELSE [monitor |-> checked, result |-> NotTriggered, set_ret |-> r.ret]

\* An evaluation that builds the snapshot whether or not a price has been seen
check_conditions_Unguarded(m, t) ==
    ConditionsChecked(m, t, check_all(m.condition_set, get_market_data(m)))

\* check_conditions() at clock time t: the monitor afterwards, the result
\* returned (or raised |-> TRUE when an exception escapes), and what the
\* condition set returned ("none" when it was not called).
check_conditions(m, t) ==
    IF m.last_price = None
    THEN [monitor |-> m, result |-> NotTriggered, set_ret |-> "none"]
    ELSE ConditionsChecked(m, t, check_all(m.condition_set, get_market_data(m)))

(***************************************************************************)
(* RealtimeAlertScanner (src/realtime_scanner.py): the live state machine  *)
(***************************************************************************)
MaxOps == 3
MaxBars == 1
MaxTime == 200

\* The monitored symbols, and those the feed delivers ticks for
Symbols == {"A", "B"}
FedSymbols == {"A"}
\* The <<price, cumulative volume>> pairs the feed delivers
Feed == {<<100, 0>>, <<100, 10>>, <<101, 10>>, <<102, 30>>}
\* The clock is read every 5 s
TickSteps == {50}

\* The condition set _initialize_monitors gives every monitor
DefaultConditionSet ==
    add_condition(add_condition(add_condition(AlertConditionSet,
        Condition("PriceAboveVWAP")), Condition("PriceSurge")),
        Condition("VolumeSpike10s"))

\* The condition sets a caller passes to set_conditions
CustomConditionSets ==
    {add_condition(AlertConditionSet, Condition("TwoStepMomentum"))}

Bars(t) ==
    {[date |-> t, close |-> b[1], volume |-> b[2]] : b \in {<<100, 10>>, <<101, 0>>}}
BarLists(t) == UNION {[1..n -> Bars(t)] : n \in 1..MaxBars}

NoEval ==
    [time |-> None, set_ret |-> "none", triggered |-> FALSE, raised |-> FALSE,
     prev_alert |-> None]

\* What one evaluation did, for the claims: when it ran, what the condition
\* set returned, the result, and last_alert_time as it was before.
Evaluation(m, c, t) ==
    [time |-> t, set_ret |-> c.set_ret, triggered |-> c.result.triggered,
     raised |-> c.result.raised, prev_alert |-> m.last_alert_time]

LiveInit ==
    /\ now = 0
    /\ monitors = [s \in Symbols |-> RealtimeSymbolMonitor(DefaultConditionSet)]
    /\ update_count = 0
    /\ alerts = <<>>
    /\ last_eval = [s \in Symbols |-> NoEval]
    /\ ingested = [s \in Symbols |-> <<>>]
    /\ ops = 0

\* The wall clock advances.
Tick(d) ==
    /\ now + d <= MaxTime
    /\ now' = now + d
    /\ UNCHANGED <<monitors, update_count, alerts, last_eval, ingested, ops>>
    /\ LiveFrame

\* RealtimeAlertScanner.update for a monitored symbol: ingest, count, evaluate
\* and dispatch.  An exception of the evaluation leaves update after the
\* ingest and the count.
ScannerUpdate(s, price, volume) ==
    \E m \in {update_market_data(monitors[s], price, volume, now)} :
    \E c \in {check_conditions(m, now)} :
       /\ ops < MaxOps
       /\ ops' = ops + 1
       /\ monitors' = [monitors EXCEPT ![s] = c.monitor]
       /\ update_count' = update_count + 1
       /\ alerts' = IF c.result.triggered
                    THEN Append(alerts, [symbol |-> s, time |-> now, price |-> price,
                                         reasons |-> c.result.reasons])
                    ELSE alerts
       /\ last_eval' = [last_eval EXCEPT ![s] = Evaluation(m, c, now)]
       /\ ingested' = [ingested EXCEPT ![s] =
              Append(@, <<price, IF monitors[s].last_volume # None
                                 THEN volume - monitors[s].last_volume
                                 ELSE volume>>)]
       /\ UNCHANGED now

Update(s, price, volume) ==
    /\ ScannerUpdate(s, price, volume)
    /\ LiveFrame

\* RealtimeSymbolMonitor.check_conditions called on its own
CheckConditions(s) ==
    \E c \in {check_conditions(monitors[s], now)} :
       /\ monitors' = [monitors EXCEPT ![s] = c.monitor]
       /\ last_eval' = [last_eval EXCEPT ![s] = Evaluation(monitors[s], c, now)]
       /\ UNCHANGED <<now, update_count, alerts, ingested, ops>>
       /\ LiveFrame

RECURSIVE BarSamples(_)
BarSamples(bars) ==
    IF bars = <<>> THEN <<>>
    ELSE <<<<Head(bars).close, Head(bars).volume>>>> \o BarSamples(Tail(bars))

\* RealtimeSymbolMonitor.load_historical_intraday with the bars of a fetch
LoadHistorical(s, bars) ==
    /\ ops < MaxOps
    /\ ops' = ops + 1
    /\ monitors' = [monitors EXCEPT ![s] = load_historical_intraday(@, bars)]
    /\ ingested' = [ingested EXCEPT ![s] = @ \o BarSamples(bars)]
    /\ UNCHANGED <<now, update_count, alerts, last_eval>>
    /\ LiveFrame

\* RealtimeAlertScanner.set_conditions for a monitored symbol
SetConditions(s, set) ==
    /\ monitors' = [monitors EXCEPT ![s].condition_set = set]
    /\ UNCHANGED <<now, update_count, alerts, last_eval, ingested, ops>>
    /\ LiveFrame

LiveNext ==
    \/ \E d \in TickSteps : Tick(d)
    \/ \E s \in FedSymbols, f \in Feed : Update(s, f[1], f[2])
    \/ \E s \in FedSymbols : CheckConditions(s)
    \/ \E s \in FedSymbols, set \in CustomConditionSets : SetConditions(s, set)

\* RealtimeSymbolMonitor.update_market_data called on its own
UpdateMarketData(s, price, volume) ==
    /\ ops < MaxOps
    /\ ops' = ops + 1
    /\ monitors' = [monitors EXCEPT ![s] = update_market_data(@, price, volume, now)]
    /\ ingested' = [ingested EXCEPT ![s] =
           Append(@, <<price, IF monitors[s].last_volume # None
                              THEN volume - monitors[s].last_volume
                              ELSE volume>>)]
    /\ UNCHANGED <<now, update_count, alerts, last_eval>>
    /\ LiveFrame

\* The ingest operations of one monitor
IngestNext ==
    \/ \E d \in TickSteps : Tick(d)
    \/ \E s \in FedSymbols, f \in Feed : UpdateMarketData(s, f[1], f[2])
    \/ \E s \in FedSymbols : \E bars \in BarLists(now) : LoadHistorical(s, bars)

\* The life of one monitor: fetched bars, live updates and evaluations
(***************************************************************************)
(* The histories of one monitor under more appends than they hold          *)
(***************************************************************************)
MaxAppends == 5

HistoryFeed == {<<100, 10>>, <<101, 30>>}
\* The bars of a fetch: the bar that ends now, or the bar of the session's open
HistoryBars(t) == {<<[date |-> d, close |-> 102, volume |-> 10]>> : d \in {t, 0}}

\* update_market_data on a monitor, the sample logged
AppendSample(s, price, volume) ==
    /\ Len(ingested[s]) < MaxAppends
    /\ monitors' = [monitors EXCEPT ![s] = update_market_data(@, price, volume, now)]
    /\ ingested' = [ingested EXCEPT ![s] = Append(@, <<price, VolumeIncrement(monitors[s], volume)>>)]
    /\ UNCHANGED <<now, update_count, alerts, last_eval, ops>>
    /\ LiveFrame

\* load_historical_intraday on a monitor, the bars logged
AppendBars(s, bars) ==
    /\ Len(ingested[s]) + Len(bars) <= MaxAppends
    /\ monitors' = [monitors EXCEPT ![s] = load_historical_intraday(@, bars)]
    /\ ingested' = [ingested EXCEPT ![s] = @ \o BarSamples(bars)]
    /\ UNCHANGED <<now, update_count, alerts, last_eval, ops>>
    /\ LiveFrame

HistoryNext ==
    \/ \E d \in TickSteps : Tick(d)
    \/ \E s \in FedSymbols, f \in HistoryFeed : AppendSample(s, f[1], f[2])
    \/ \E s \in FedSymbols : \E bars \in HistoryBars(now) : AppendBars(s, bars)

\* The life of one monitor: fetched bars, live updates and evaluations
LifecycleNext ==
    \/ \E d \in TickSteps : Tick(d)
    \/ \E s \in FedSymbols, f \in HistoryFeed : Update(s, f[1], f[2])
    \/ \E s \in FedSymbols : CheckConditions(s)
    \/ \E s \in FedSymbols : \E bars \in HistoryBars(now) : LoadHistorical(s, bars)

(***************************************************************************)
(* Threads on one scanner (src/realtime_scanner.py).  The feed thread and  *)
(* the polling thread call update, get_volume_spike_ratio and              *)
(* get_status_summary / get_all_statuses.  A with-block on the monitor's   *)
(* lock is one step; the statements of check_conditions and check_all      *)
(* outside any with-block are steps of their own.                          *)
(***************************************************************************)
Threads == {"feed", "poll"}

\* The <<price, cumulative volume>> pairs delivered while the threads run
ConcFeed == {<<102, 30>>, <<103, 40>>}

Free == "free"

\* What a thread keeps between its steps: the symbol of its call, the
\* snapshot it took and the reasons its own check_all recorded.
NoLocal == [symbol |-> "", data |-> <<>>, evaluated |-> <<>>, in_status |-> FALSE]

\* A scanner whose monitors of the fed symbols have received two ticks
Warmed(m) ==
    update_market_data(update_market_data(m, 100, 10, 0), 101, 20, Seconds(5))

ConcInit ==
    /\ now = Seconds(10)
    /\ monitors = [s \in Symbols |->
          IF s \in FedSymbols
          THEN Warmed(RealtimeSymbolMonitor(CHOOSE set \in CustomConditionSets : TRUE))
          ELSE RealtimeSymbolMonitor(DefaultConditionSet)]
    /\ update_count = 2
    /\ alerts = <<>>
    /\ last_eval = [s \in Symbols |-> NoEval]
    /\ ingested = [s \in Symbols |-> <<>>]
    /\ ops = 0
    /\ lock = [s \in Symbols |-> Free]
    /\ pc = [t \in Threads |-> "idle"]
    /\ local = [t \in Threads |-> NoLocal]

\* update(): update_market_data under the monitor's lock, and the count
ThreadIngest(t, s, price, volume) ==
    /\ pc[t] = "idle"
    /\ lock[s] = Free
    /\ ops < MaxOps
    /\ ops' = ops + 1
    /\ monitors' = [monitors EXCEPT ![s] = update_market_data(@, price, volume, now)]
    /\ update_count' = update_count + 1
    /\ pc' = [pc EXCEPT ![t] = "get_market_data"]
    /\ local' = [local EXCEPT ![t] = [NoLocal EXCEPT !.symbol = s]]
    /\ UNCHANGED <<now, alerts, last_eval, ingested, lock>>
    /\ ConcFrame

\* check_conditions: get_market_data under the monitor's lock
ThreadSnapshot(t) ==
    LET s == local[t].symbol
    IN /\ pc[t] = "get_market_data"
       /\ lock[s] = Free
       /\ local' = [local EXCEPT ![t].data = get_market_data(monitors[s])]
       /\ pc' = [pc EXCEPT ![t] = "check_all"]
       /\ UNCHANGED <<livevars, lock>>
       /\ ConcFrame

\* check_all: self.triggered_reasons = []
ThreadResetReasons(t) ==
    LET s == local[t].symbol
    IN /\ pc[t] = "check_all"
       /\ monitors' = [monitors EXCEPT ![s].condition_set.triggered_reasons = <<>>]
       /\ pc' = [pc EXCEPT ![t] = "members"]
       /\ UNCHANGED <<now, update_count, alerts, last_eval, ingested, ops, lock, local>>
       /\ ConcFrame

\* check_all from the gate on: the gate, the spread filter, the member loop
\* and the final test, writing the reasons into the shared condition set
ThreadCheckAll(t) ==
    LET s == local[t].symbol
    IN /\ pc[t] = "members"
       /\ \E r \in {check_all(monitors[s].condition_set, local[t].data)} :
             /\ monitors' = [monitors EXCEPT ![s].condition_set = r.set]
             /\ IF r.ret = "True"
                THEN /\ pc' = [pc EXCEPT ![t] = "cooldown"]
                     /\ local' = [local EXCEPT
                                     ![t].evaluated = get_trigger_summary(r.set)]
                ELSE /\ pc' = [pc EXCEPT ![t] = "idle"]
                     /\ local' = [local EXCEPT ![t] = NoLocal]
       /\ UNCHANGED <<now, update_count, alerts, last_eval, ingested, ops, lock>>
       /\ ConcFrame

\* check_conditions: the cooldown test
ThreadCooldownTest(t) ==
    LET s == local[t].symbol
    IN /\ pc[t] = "cooldown"
       /\ IF CooldownElapsed(monitors[s], now)
          THEN /\ pc' = [pc EXCEPT ![t] = "last_alert_time"]
               /\ UNCHANGED local
          ELSE /\ pc' = [pc EXCEPT ![t] = "idle"]
               /\ local' = [local EXCEPT ![t] = NoLocal]
       /\ UNCHANGED <<livevars, lock>>
       /\ ConcFrame

\* check_conditions: self.last_alert_time = datetime.now()
ThreadStampAlert(t) ==
    LET s == local[t].symbol
    IN /\ pc[t] = "last_alert_time"
       /\ monitors' = [monitors EXCEPT ![s].last_alert_time = now]
       /\ pc' = [pc EXCEPT ![t] = "get_trigger_summary"]
       /\ UNCHANGED <<now, update_count, alerts, last_eval, ingested, ops, lock, local>>
       /\ ConcFrame

\* check_conditions returns the summary read from the condition set, and
\* update hands the alert to _trigger_alert
ThreadReturnAlert(t) ==
    LET s == local[t].symbol
    IN /\ pc[t] = "get_trigger_summary"
       /\ alerts' = Append(alerts,
              [symbol |-> s, time |-> monitors[s].last_alert_time,
               price |-> local[t].data.price,
               reasons |-> get_trigger_summary(monitors[s].condition_set),
               evaluated |-> local[t].evaluated])
       /\ pc' = [pc EXCEPT ![t] = "idle"]
       /\ local' = [local EXCEPT ![t] = NoLocal]
       /\ UNCHANGED <<now, monitors, update_count, last_eval, ingested, ops, lock>>
       /\ ConcFrame

\* get_volume_spike_ratio() is called
ThreadCallSpikeRatio(t, s) ==
    /\ pc[t] = "idle"
    /\ ops < MaxOps
    /\ ops' = ops + 1
    /\ pc' = [pc EXCEPT ![t] = "get_volume_spike_ratio"]
    /\ local' = [local EXCEPT ![t] = [NoLocal EXCEPT !.symbol = s]]
    /\ UNCHANGED <<now, monitors, update_count, alerts, last_eval, ingested, lock>>
    /\ ConcFrame

\* get_status_summary(), by itself or from get_all_statuses: it takes the
\* monitor's lock and calls get_volume_spike_ratio() while holding it
ThreadStatusSummary(t, s) ==
    /\ pc[t] = "idle"
    /\ lock[s] = Free
    /\ ops < MaxOps
    /\ ops' = ops + 1
    /\ lock' = [lock EXCEPT ![s] = t]
    /\ pc' = [pc EXCEPT ![t] = "get_volume_spike_ratio"]
    /\ local' = [local EXCEPT ![t] = [NoLocal EXCEPT !.symbol = s, !.in_status = TRUE]]
    /\ UNCHANGED <<now, monitors, update_count, alerts, last_eval, ingested>>
    /\ ConcFrame

\* get_volume_spike_ratio under the monitor's lock, which is not reentrant;
\* get_status_summary then returns and releases the lock it took.
ThreadSpikeRatio(t) ==
    LET s == local[t].symbol
    IN /\ pc[t] = "get_volume_spike_ratio"
       /\ lock[s] = Free
       /\ lock' = lock
       /\ pc' = [pc EXCEPT ![t] = "idle"]
       /\ local' = [local EXCEPT ![t] = NoLocal]
       /\ UNCHANGED livevars
       /\ ConcFrame

ConcNext ==
    \/ \E d \in TickSteps : Tick(d)
    \/ \E t \in Threads, s \in FedSymbols, f \in ConcFeed : ThreadIngest(t, s, f[1], f[2])
    \/ \E t \in Threads : ThreadSnapshot(t)
    \/ \E t \in Threads : ThreadResetReasons(t)
    \/ \E t \in Threads : ThreadCheckAll(t)
    \/ \E t \in Threads : ThreadCooldownTest(t)
    \/ \E t \in Threads : ThreadStampAlert(t)
    \/ \E t \in Threads : ThreadReturnAlert(t)
    \/ \E t \in Threads, s \in FedSymbols : ThreadCallSpikeRatio(t, s)
    \/ \E t \in Threads, s \in FedSymbols : ThreadStatusSummary(t, s)
    \/ \E t \in Threads : ThreadSpikeRatio(t)

(***************************************************************************)
(* BacktestSymbolData and BacktestAlertScanner (src/backtest_scanner.py)   *)
(***************************************************************************)
MaxCandles == 4
MaxTicks == 1
MaxRuns == 2

\* Timestamps of candles count 100 ms units from midnight of the backtest date
DayLength == 24 * 60 * 60 * 10
DateOf(timestamp) == timestamp \div DayLength
BacktestDate == DateOf(0)

\* A candle as add_candle stores it
Candle(timestamp, open_price, high_price, low_price, close_price, volume, vwap) ==
    [timestamp |-> timestamp, open |-> open_price, high |-> high_price,
     low |-> low_price, close |-> close_price, volume |-> volume, vwap |-> vwap,
     intraday_ticks |-> <<>>]

add_candle(data, candle) == Append(data, candle)

\* add_intraday_tick: the tick goes to the last candle added, if there is one
add_intraday_tick(data, tick) ==
    IF data # <<>>
    THEN [data EXCEPT ![Len(data)].intraday_ticks = Append(@, tick)]
    ELSE data

get_all_candles_for_date(data, date) ==
    SelectSeq(data, LAMBDA c : DateOf(c.timestamp) = date)

\* sorted(candles, key=timestamp): a stable sort
SortCandles(candles) ==
    LET n == Len(candles)
        rank(i) == Cardinality({j \in 1..n :
                       \/ candles[j].timestamp < candles[i].timestamp
                       \/ candles[j].timestamp = candles[i].timestamp /\ j < i}) + 1
    IN [k \in 1..n |-> candles[CHOOSE i \in 1..n : rank(i) = k]]

\* The assignments to price_history and volume_history one candle makes, in
\* order: the candle, then its intraday ticks
HistoryEntries(candle) ==
    <<[timestamp |-> candle.timestamp, price |-> candle.close,
       volume |-> candle.volume]>> \o candle.intraday_ticks

RECURSIVE AllHistoryEntries(_)
AllHistoryEntries(sorted_candles) ==
    IF sorted_candles = <<>> THEN <<>>
    ELSE HistoryEntries(Head(sorted_candles)) \o AllHistoryEntries(Tail(sorted_candles))

\* The history up to the cutoff, in the order of the dict
HistoryUpTo(history, cutoff_time) ==
    SelectSeq(history, LAMBDA e : e[1] <= cutoff_time)

\* The snapshot run_backtest evaluates at a candle
CandleSnapshot(candle, price_history, volume_history) ==
    MarketData(candle.close, candle.volume, Quot(candle.vwap, 1), candle.timestamp,
               0, 0,
               HistoryUpTo(price_history, candle.timestamp),
               HistoryUpTo(volume_history, candle.timestamp))

\* _extract_condition_reasons: name and reason of every member holding one
extract_condition_reasons(set) ==
    LET held == SelectSeq(set.conditions, LAMBDA c : c.triggered_reason # NoReason)
    IN [i \in 1..Len(held) |-> <<held[i].kind, held[i].triggered_reason>>]

BacktestAlert(symbol, candle, set) ==
    [symbol |-> symbol, timestamp |-> candle.timestamp, price |-> candle.close,
     volume |-> candle.volume, vwap |-> candle.vwap,
     conditions_triggered |-> extract_condition_reasons(set)]

\* The candle loop of run_backtest from candle i on.  The snapshots carry a
\* number as VWAP, so check_all returns without raising.  The result holds
\* the condition set afterwards, the alerts created and the VWAP of every
\* snapshot evaluated.
RECURSIVE CandleLoop(_, _, _, _, _, _, _, _)

\* Candle i, for which check_all on the snapshot market_data did r
CandleChecked(symbol, sorted_candles, price_history, volume_history, i, created, vwaps, market_data, r) ==
    CandleLoop(symbol, sorted_candles, price_history, volume_history, i + 1,
               r.set,
               IF r.ret = "True"
               THEN Append(created, BacktestAlert(symbol, sorted_candles[i], r.set))
               ELSE created,
               Append(vwaps, market_data.vwap))

CandleLoop(symbol, sorted_candles, price_history, volume_history, i, set, created, vwaps) ==
    IF i > Len(sorted_candles)
    THEN [sorted_candles |-> sorted_candles, set |-> set, created |-> created,
          vwaps |-> vwaps]
    ELSE CandleChecked(symbol, sorted_candles, price_history, volume_history, i,
             created, vwaps,
             CandleSnapshot(sorted_candles[i], price_history, volume_history),
             check_all(set, CandleSnapshot(sorted_candles[i], price_history,
                                           volume_history)))

\* run_backtest for one symbol: the candles of the date sorted, the two
\* history dicts built, then the candle loop
run_symbol(symbol, data, date, set) ==
    LET candles == get_all_candles_for_date(data, date)
        sorted_candles == SortCandles(candles)
        entries == AllHistoryEntries(sorted_candles)
        price_history == DictOf([i \in 1..Len(entries) |->
                                    <<entries[i].timestamp, entries[i].price>>])
        volume_history == DictOf([i \in 1..Len(entries) |->
                                    <<entries[i].timestamp, entries[i].volume>>])
    IN CandleLoop(symbol, sorted_candles, price_history, volume_history,
                  1, set, <<>>, <<>>)

\* The candles and ticks a data provider delivers
BacktestCandles ==
    {Candle(0, 100, 100, 100, 100, 10, 0),
     Candle(Seconds(5), 101, 101, 101, 101, 10, 100),
     Candle(Seconds(10), 102, 102, 102, 102, 10, 101),
     Candle(Seconds(10) + 1, 102, 102, 102, 102, 0, 99),
     Candle(DayLength, 100, 100, 100, 100, 10, 0)}

BacktestTicks == {[timestamp |-> Seconds(2), price |-> 100, volume |-> 5]}

\* BacktestAlertScanner.__init__
BTInit ==
    /\ symbol_data = [s \in Symbols |-> <<>>]
    /\ backtest_alerts = [s \in Symbols |-> <<>>]
    /\ condition_sets = [s \in Symbols |-> DefaultConditionSet]
    /\ runs = <<>>

TicksOf(data) == SumSeq([i \in 1..Len(data) |-> Len(data[i].intraday_ticks)])

\* The data is loaded and the conditions are set before the first run, as
\* run_final_backtest.py does.
AddData(s, candle) ==
    /\ runs = <<>>
    /\ Len(symbol_data[s]) < MaxCandles
    /\ symbol_data' = [symbol_data EXCEPT ![s] = add_candle(@, candle)]
    /\ UNCHANGED <<condition_sets, backtest_alerts, runs>>
    /\ BacktestFrame

AddIntradayTick(s, tick) ==
    /\ runs = <<>>
    /\ TicksOf(symbol_data[s]) < MaxTicks
    /\ symbol_data' = [symbol_data EXCEPT ![s] = add_intraday_tick(@, tick)]
    /\ UNCHANGED <<condition_sets, backtest_alerts, runs>>
    /\ BacktestFrame

BacktestSetConditions(s, set) ==
    /\ runs = <<>>
    /\ condition_sets' = [condition_sets EXCEPT ![s] = set]
    /\ UNCHANGED <<symbol_data, backtest_alerts, runs>>
    /\ BacktestFrame

\* run_backtest(): every symbol in turn; the alerts created are appended to
\* self.alerts, which is what the call returns.  runs keeps, for every call,
\* what it replayed and what it returned.
RunBacktest ==
    \E out \in {[s \in Symbols |->
                   run_symbol(s, symbol_data[s], BacktestDate, condition_sets[s])]} :
    \E returned \in {[s \in Symbols |-> backtest_alerts[s] \o out[s].created]} :
       /\ Len(runs) < MaxRuns
       /\ backtest_alerts' = returned
       /\ condition_sets' = [s \in Symbols |-> out[s].set]
       /\ runs' = Append(runs,
              [symbol_data |-> symbol_data,
               conditions |-> [s \in Symbols |->
                                  [i \in 1..Len(condition_sets[s].conditions) |->
                                      condition_sets[s].conditions[i].kind]],
               sorted_candles |-> [s \in Symbols |-> out[s].sorted_candles],
               vwaps |-> [s \in Symbols |-> out[s].vwaps],
               created |-> [s \in Symbols |-> out[s].created],
               returned |-> returned])
       /\ UNCHANGED symbol_data
       /\ BacktestFrame

BacktestNext ==
    \/ \E s \in FedSymbols, candle \in BacktestCandles : AddData(s, candle)
    \/ \E s \in FedSymbols, tick \in BacktestTicks : AddIntradayTick(s, tick)
    \/ \E s \in FedSymbols, set \in CustomConditionSets : BacktestSetConditions(s, set)
    \/ RunBacktest

(***************************************************************************)
(* The scenario loop of src/run_final_backtest.py and the P&L simulator it *)
(* calls (calculate_pl, of which the repository holds only the call)       *)
(***************************************************************************)
MaxFollow == 2
MaxScenarios == 2

\* Money and bracket prices are exact fractions in lowest terms
RECURSIVE GCD(_, _)
GCD(a, b) == IF b = 0 THEN a ELSE GCD(b, a % b)
Abs(n) == IF n < 0 THEN 0 - n ELSE n
Reduced(num, den) ==
    LET g == GCD(Abs(num), den) IN [num |-> num \div g, den |-> den \div g]
QAdd(a, b) == Reduced(a.num * b.den + b.num * a.den, a.den * b.den)
QSub(a, b) == Reduced(a.num * b.den - b.num * a.den, a.den * b.den)
QMul(a, b) == Reduced(a.num * b.num, a.den * b.den)
QLeq(a, b) == a.num * b.den <= b.num * a.den
QMax(a, b) == IF QLeq(a, b) THEN b ELSE a

\* Configuration of the simulator: initial capital, per-trade investment,
\* commission rate per share and minimum commission per leg
initial_asset == Reduced(10000, 1)
fixedInvestment == Reduced(1000, 1)
perShareRate == Reduced(1, 5)
minCommission == Reduced(1, 1)

\* Scenarios: (take profit %, stop loss %)
SCENARIOS == {<<2, 1>>, <<4, 2>>, <<1, 10>>}

tpPrice(entry, tp) == Reduced(entry * (100 + tp), 100)
slPrice(entry, sl) == Reduced(entry * (100 - sl), 100)

\* What one candle does to an open position: take-profit is tested first
BracketOutcome_StopFirst(candle, tp_price, sl_price) ==
    IF QLeq(Reduced(candle.low, 1), sl_price) THEN "LOSS"
    ELSE IF QLeq(tp_price, Reduced(candle.high, 1)) THEN "WIN"
    ELSE "OPEN"

BracketOutcome(candle, tp_price, sl_price) ==
    IF QLeq(tp_price, Reduced(candle.high, 1)) THEN "WIN"
    ELSE IF QLeq(Reduced(candle.low, 1), sl_price) THEN "LOSS"
    ELSE "OPEN"

\* The forward scan from candle j on: candles at or before the alert are
\* passed over, the first candle touching a bracket closes the trade
RECURSIVE ScanCandles(_, _, _, _, _, _)
ScanCandles(candles, j, alert, entry, tp_price, sl_price) ==
    IF j > Len(candles)
    THEN [outcome |-> "OPEN", exit |-> entry, exit_time |-> None]
    ELSE IF candles[j].timestamp <= alert.timestamp
    THEN ScanCandles(candles, j + 1, alert, entry, tp_price, sl_price)
    ELSE IF BracketOutcome(candles[j], tp_price, sl_price) = "WIN"
    THEN [outcome |-> "WIN", exit |-> tp_price, exit_time |-> candles[j].timestamp]
    ELSE IF BracketOutcome(candles[j], tp_price, sl_price) = "LOSS"
    THEN [outcome |-> "LOSS", exit |-> sl_price, exit_time |-> candles[j].timestamp]
    ELSE ScanCandles(candles, j + 1, alert, entry, tp_price, sl_price)

\* Position sizing and commission: shares = investment / entry, the
\* commission max(minimum, shares * rate) is charged on both legs
NetPL(entry, exit) ==
    LET shares == QMul(fixedInvestment, Reduced(1, entry.num))
        grossPL == QMul(QSub(exit, entry), shares)
        commission == QMax(minCommission, QMul(shares, perShareRate))
    IN QSub(grossPL, QAdd(commission, commission))

\* The trade of one alert, scored against the candles of the symbol
Trade(alert, candles, tp, sl) ==
    LET entry == Reduced(alert.price, 1)
        scan == ScanCandles(candles, 1, alert, entry,
                            tpPrice(alert.price, tp), slPrice(alert.price, sl))
    IN [timestamp |-> alert.timestamp, entry |-> entry, outcome |-> scan.outcome,
        exit |-> scan.exit, exit_time |-> scan.exit_time,
        net_pl |-> NetPL(entry, scan.exit)]

\* The alert loop of one symbol: every alert in order is scored once and its
\* net P&L is added to the balance of the symbol
RECURSIVE TradeLoop(_, _, _, _, _, _, _)

TradeScored(symbol_alerts, candles, tp, sl, i, balance, trades, trade) ==
    TradeLoop(symbol_alerts, candles, tp, sl, i + 1,
              QAdd(balance, trade.net_pl),
              Append(trades, [timestamp |-> trade.timestamp, entry |-> trade.entry,
                              outcome |-> trade.outcome, exit |-> trade.exit,
                              exit_time |-> trade.exit_time, net_pl |-> trade.net_pl,
                              balance |-> QAdd(balance, trade.net_pl)]))

TradeLoop(symbol_alerts, candles, tp, sl, i, balance, trades) ==
    IF i > Len(symbol_alerts)
    THEN [trades |-> trades, balance |-> balance]
    ELSE TradeScored(symbol_alerts, candles, tp, sl, i, balance, trades,
                     Trade(symbol_alerts[i], candles, tp, sl))

\* calculate_pl(tp, sl): for every symbol, its alerts scored against its
\* candles of the backtest date in chronological order
calculate_pl(tp, sl, data, all_alerts, assets) ==
    [s \in Symbols |->
        TradeLoop(all_alerts[s],
                  SortCandles(get_all_candles_for_date(data[s], BacktestDate)),
                  tp, sl, 1, assets[s], <<>>)]

\* scanner.current_assets = {s: scanner.initial_asset for s in SYMBOLS}
ResetAssets_Kept(assets) == assets

ResetAssets(assets) == [s \in Symbols |-> initial_asset]

\* The candles load_data_from_tws has delivered before the first candle a
\* trade can exit on, and the candles that follow them
LoadedCandles ==
    <<Candle(0, 100, 100, 100, 100, 10, 0),
      Candle(Seconds(5), 101, 101, 101, 101, 10, 100),
      Candle(Seconds(10), 102, 102, 102, 102, 10, 101)>>

FollowingCandles ==
    {Candle(Seconds(15), 102, 103, 101, 102, 10, 101),
     Candle(Seconds(20), 102, 105, 100, 103, 10, 101),
     Candle(Seconds(20), 102, 103, 100, 101, 10, 101),
     Candle(Seconds(25), 103, 107, 103, 106, 10, 102)}

\* A backtest scanner with its first candles loaded and the balances not yet
\* touched
PLInit ==
    /\ symbol_data = [s \in Symbols |-> IF s \in FedSymbols THEN LoadedCandles ELSE <<>>]
    /\ backtest_alerts = [s \in Symbols |-> <<>>]
    /\ condition_sets = [s \in Symbols |-> DefaultConditionSet]
    /\ runs = <<>>
    /\ current_assets = [s \in Symbols |-> initial_asset]
    /\ scenarios = <<>>

\* No scenario has been run
PLIdle ==
    /\ current_assets = [s \in Symbols |-> initial_asset]
    /\ scenarios = <<>>

\* load_data_from_tws goes on: one more candle
LoadCandle(s, candle) ==
    /\ runs = <<>>
    /\ Len(symbol_data[s]) < Len(LoadedCandles) + MaxFollow
    /\ symbol_data' = [symbol_data EXCEPT ![s] = add_candle(@, candle)]
    /\ UNCHANGED <<condition_sets, backtest_alerts, runs, plvars>>
    /\ PLFrame

\* alerts = scanner.run_backtest()
PLRunBacktest ==
    /\ scenarios = <<>>
    /\ RunBacktest

\* One round of the scenario loop: the balances are reset, calculate_pl
\* scores every alert, the final balance of every symbol is read
Scenario(tp, sl) ==
    /\ runs # <<>>
    /\ Len(scenarios) < MaxScenarios
    /\ \E pl \in {calculate_pl(tp, sl, symbol_data, backtest_alerts,
                               ResetAssets(current_assets))} :
          /\ current_assets' = [s \in Symbols |-> pl[s].balance]
          /\ scenarios' = Append(scenarios,
                 [tp |-> tp, sl |-> sl,
                  alerts |-> backtest_alerts,
                  candles |-> [s \in Symbols |->
                      SortCandles(get_all_candles_for_date(symbol_data[s], BacktestDate))],
                  pl_results |-> [s \in Symbols |-> pl[s].trades],
                  final_asset |-> [s \in Symbols |-> pl[s].balance]])
    /\ UNCHANGED btvars
    /\ PLFrame

PLNext ==
    \/ \E s \in FedSymbols, candle \in FollowingCandles : LoadCandle(s, candle)
    \/ \E s \in FedSymbols, set \in CustomConditionSets : BacktestSetConditions(s, set)
    \/ PLRunBacktest
    \/ \E sc \in SCENARIOS : Scenario(sc[1], sc[2])

(***************************************************************************)
(* The live program: subscriptions, the display loop and the signal        *)
(* handler (src/realtime_scanner.py __main__, src/tws_data_fetcher.py)      *)
(***************************************************************************)
MaxIterations == 3

\* symbols, in the order the subscriptions are made
SymbolList == <<"A", "B">>

table_update_interval == Seconds(5)

\* TWSDataApp.subscribe_realtime_data: realtime_callbacks[req_id] = (symbol, callback)
subscribe_realtime_data(callbacks, req_id, symbol) == callbacks \cup {<<req_id, symbol>>}

\* TWSDataApp.unsubscribe_realtime_data: the first request of the symbol is
\* cancelled and removed
unsubscribe_realtime_data(callbacks, symbol) ==
    IF \E e \in callbacks : e[2] = symbol
    THEN callbacks \ {CHOOSE e \in callbacks :
                         /\ e[2] = symbol
                         /\ \A f \in callbacks : f[2] = symbol => e[1] <= f[1]}
    ELSE callbacks

\* The program connected to TWS, before the first subscription
MainInit ==
    /\ should_exit = FALSE
    /\ main_pc = "subscribe"
    /\ realtime_callbacks = {}
    /\ req_id_counter = 2000
    /\ tws_connected = TRUE
    /\ last_table_update = 0
    /\ alerts_displayed = 0
    /\ iterations = 0

\* for symbol in symbols: tws_app.subscribe_realtime_data(symbol, callback)
Subscribe ==
    /\ main_pc = "subscribe"
    /\ Cardinality(realtime_callbacks) < Len(SymbolList)
    /\ realtime_callbacks' = subscribe_realtime_data(realtime_callbacks, req_id_counter,
                                 SymbolList[Cardinality(realtime_callbacks) + 1])
    /\ req_id_counter' = req_id_counter + 1
    /\ UNCHANGED <<should_exit, main_pc, tws_connected, last_table_update, alerts_displayed, iterations>>
    /\ UNCHANGED livevars
    /\ MainFrame

\* time.sleep(10), the first table, last_table_update = time.time()
WaitInitialData ==
    /\ main_pc = "subscribe"
    /\ Cardinality(realtime_callbacks) = Len(SymbolList)
    /\ now' = now + Seconds(10)
    /\ last_table_update' = now'
    /\ main_pc' = "loop"
    /\ UNCHANGED <<should_exit, realtime_callbacks, req_id_counter, tws_connected, alerts_displayed, iterations>>
    /\ UNCHANGED <<monitors, update_count, alerts, last_eval, ingested, ops>>
    /\ MainFrame

\* A tick of a registered request reaches the callback of its symbol, which
\* calls scanner.update
FeedCallback(s, price, volume) ==
    /\ tws_connected
    /\ main_pc # "terminated"
    /\ \E e \in realtime_callbacks : e[2] = s
    /\ Update(s, price, volume)

\* One round of "while not should_exit": sleep half a second, and show the
\* table when the interval has passed or an alert is waiting
LoopIteration ==
    /\ main_pc = "loop"
    /\ ~should_exit
    /\ iterations < MaxIterations
    /\ iterations' = iterations + 1
    /\ IF (now + Seconds(1) \div 2) - last_table_update >= table_update_interval
          \/ Len(alerts) > alerts_displayed
       THEN /\ last_table_update' = now + Seconds(1) \div 2
            /\ alerts_displayed' = Len(alerts)
            /\ now' = IF Len(alerts) > alerts_displayed
                      THEN now + Seconds(1) \div 2 + Seconds(2)
                      ELSE now + Seconds(1) \div 2
       ELSE /\ now' = now + Seconds(1) \div 2
            /\ UNCHANGED <<last_table_update, alerts_displayed>>
    /\ UNCHANGED <<should_exit, main_pc, realtime_callbacks, req_id_counter, tws_connected>>
    /\ UNCHANGED <<monitors, update_count, alerts, last_eval, ingested, ops>>
    /\ MainFrame

\* signal_handler: should_exit = True, tws_app_global.disconnect(),
\* sys.exit(0).  The program ends inside the handler, so the loop never
\* sees should_exit set and the cleanup after the loop is not reached.
SignalHandler ==
    /\ main_pc # "terminated"
    /\ should_exit' = TRUE
    /\ tws_connected' = FALSE
    /\ main_pc' = "terminated"
    /\ UNCHANGED <<realtime_callbacks, req_id_counter, last_table_update, alerts_displayed, iterations>>
    /\ UNCHANGED livevars
    /\ MainFrame

MainNext ==
    \/ Subscribe
    \/ WaitInitialData
    \/ \E s \in Symbols, f \in Feed : FeedCallback(s, f[1], f[2])
    \/ LoopIteration
    \/ SignalHandler

(***************************************************************************)
(* The data app's ticks (src/tws_data_fetcher.py tickPrice, tickSize) and  *)
(* the callback that hands them to the scanner                             *)
(***************************************************************************)
\* The entry subscribe_realtime_data makes in realtime_data
NoRealtimeData == [price |-> 0, bid |-> 0, ask |-> 0, volume |-> 0, vwap |-> Reduced(0, 1)]

\* The price ticks (tick type, price) and the cumulative volumes of the feed
PriceTicks ==
    {<<"LAST", 100>>, <<"LAST", 101>>, <<"LAST", 102>>,
     <<"BID", 99>>, <<"ASK", 101>>}
TickSizes == {10, 30}

\* The data app with no symbol subscribed
FeedIdle ==
    /\ realtime_data = [s \in Symbols |-> NoRealtimeData]
    /\ alert_quotes = <<>>

\* The program with every symbol subscribed and the loop running
Subscribed ==
    /\ should_exit = FALSE
    /\ main_pc = "loop"
    /\ realtime_callbacks = {<<2000 + i - 1, SymbolList[i]>> : i \in 1..Len(SymbolList)}
    /\ req_id_counter = 2000 + Len(SymbolList)
    /\ tws_connected = TRUE
    /\ last_table_update = 0
    /\ alerts_displayed = 0
    /\ iterations = 0

\* tickPrice of a registered request: LAST, BID and ASK are kept
tickPrice(s, tt, price) ==
    /\ \E e \in realtime_callbacks : e[2] = s
    /\ realtime_data' = [realtime_data EXCEPT ![s] =
           IF tt = "LAST" THEN [@ EXCEPT !.price = price]
           ELSE IF tt = "BID" THEN [@ EXCEPT !.bid = price]
           ELSE [@ EXCEPT !.ask = price]]
    /\ UNCHANGED alert_quotes
    /\ UNCHANGED livevars
    /\ FeedFrame

\* The VWAP approximation of the data app: 90% old, 10% new price
ApproxVWAP(data) ==
    IF data.vwap.num = 0 THEN Reduced(data.price, 1)
    ELSE Reduced(9 * data.vwap.num + data.price * data.vwap.den, 10 * data.vwap.den)

\* tickSize VOLUME of a registered request: the volume is kept and, when a
\* price is known, the callback calls scanner.update(symbol, price, volume,
\* vwap); bid and ask stay in realtime_data.  alert_quotes keeps, for
\* every alert dispatched, the quote the data app held for the sample.
tickSizeVolume(s, size) ==
    /\ \E e \in realtime_callbacks : e[2] = s
    /\ IF realtime_data[s].price > 0
       THEN /\ ScannerUpdate(s, realtime_data[s].price, size)
            /\ realtime_data' = [realtime_data EXCEPT ![s].volume = size,
                                                      ![s].vwap = ApproxVWAP(realtime_data[s])]
            /\ alert_quotes' = IF Len(alerts') > Len(alerts)
                               THEN Append(alert_quotes,
                                        [bid |-> realtime_data[s].bid,
                                         ask |-> realtime_data[s].ask,
                                         price |-> realtime_data[s].price])
                               ELSE alert_quotes
       ELSE /\ realtime_data' = [realtime_data EXCEPT ![s].volume = size]
            /\ UNCHANGED alert_quotes
            /\ UNCHANGED livevars
    /\ FeedFrame

\* scanner.set_conditions by the program that owns the scanner
FeedSetConditions(s, set) ==
    /\ monitors[s].last_price = None
    /\ SetConditions(s, set)

FeedNext ==
    \/ \E d \in TickSteps : Tick(d)
    \/ \E s \in FedSymbols, t \in PriceTicks : tickPrice(s, t[1], t[2])
    \/ \E s \in FedSymbols, size \in TickSizes : tickSizeVolume(s, size)
    \/ \E s \in FedSymbols, set \in CustomConditionSets : FeedSetConditions(s, set)

(***************************************************************************)
(* The scanners' methods called with any symbol, monitored or not          *)
(* (src/realtime_scanner.py, src/backtest_scanner.py)                      *)
(***************************************************************************)
\* The symbols a caller may name: the monitored ones and one that is not
CallSymbols == FedSymbols \cup {"Z"}

ApiFeed == {<<100, 10>>, <<102, 30>>}
ApiCandles == {Candle(0, 100, 100, 100, 100, 10, 0)}

\* d[k] = v of a Python dict: the key is added when it is missing
DictAssign(d, k, v) == [x \in DOMAIN d \cup {k} |-> IF x = k THEN v ELSE d[x]]

\* "symbol not in self.monitors", "symbol not in self.symbols", "symbol not
\* in self.symbol_data" and "symbol not in self.alerts" raise ValueError
InMonitors(symbol) == symbol \in DOMAIN monitors

InSymbols_Unchecked(symbol) == TRUE

InSymbols(symbol) == symbol \in Symbols

InSymbolData(symbol) == symbol \in DOMAIN symbol_data

InAlerts(symbol) == symbol \in DOMAIN backtest_alerts

\* What the two scanners hold
ScannerState ==
    [monitors |-> monitors, update_count |-> update_count, alerts |-> alerts,
     symbol_data |-> symbol_data, condition_sets |-> condition_sets,
     backtest_alerts |-> backtest_alerts]

\* call is the last method called: its name, the symbol it named, whether it
\* raised ValueError, and for a call that did, what the scanners held when it
\* was called
NoState == <<>>

Called(op, symbol, rejected) ==
    [op |-> op, symbol |-> symbol, rejected |-> rejected,
     before |-> IF rejected THEN ScannerState ELSE NoState]

NoCall == [op |-> "", symbol |-> "", rejected |-> FALSE, before |-> NoState]

ApiIdle == call = NoCall

\* RealtimeAlertScanner.update
CallUpdate(symbol, price, volume) ==
    /\ call' = Called("update", symbol, ~InMonitors(symbol))
    /\ IF InMonitors(symbol)
       THEN ScannerUpdate(symbol, price, volume)
       ELSE UNCHANGED livevars
    /\ UNCHANGED btvars
    /\ ApiFrame

\* RealtimeAlertScanner.set_conditions
CallSetConditions(symbol, set) ==
    /\ call' = Called("set_conditions", symbol, ~InMonitors(symbol))
    /\ IF InMonitors(symbol)
       THEN monitors' = [monitors EXCEPT ![symbol].condition_set = set]
       ELSE UNCHANGED monitors
    /\ UNCHANGED <<now, update_count, alerts, last_eval, ingested, ops>>
    /\ UNCHANGED btvars
    /\ ApiFrame

\* BacktestAlertScanner.add_data
CallAddData(symbol, candle) ==
    /\ call' = Called("add_data", symbol, ~InSymbolData(symbol))
    /\ IF InSymbolData(symbol)
       THEN /\ Len(symbol_data[symbol]) < MaxCandles
            /\ symbol_data' = [symbol_data EXCEPT ![symbol] = add_candle(@, candle)]
       ELSE UNCHANGED symbol_data
    /\ UNCHANGED <<condition_sets, backtest_alerts, runs>>
    /\ UNCHANGED livevars
    /\ ApiFrame

\* BacktestAlertScanner.add_intraday_tick
CallAddIntradayTick(symbol, tick) ==
    /\ call' = Called("add_intraday_tick", symbol, ~InSymbolData(symbol))
    /\ IF InSymbolData(symbol)
       THEN /\ TicksOf(symbol_data[symbol]) < MaxTicks
            /\ symbol_data' = [symbol_data EXCEPT ![symbol] = add_intraday_tick(@, tick)]
       ELSE UNCHANGED symbol_data
    /\ UNCHANGED <<condition_sets, backtest_alerts, runs>>
    /\ UNCHANGED livevars
    /\ ApiFrame

\* BacktestAlertScanner.set_conditions
CallBacktestSetConditions(symbol, set) ==
    /\ call' = Called("backtest.set_conditions", symbol, ~InSymbols(symbol))
    /\ IF InSymbols(symbol)
       THEN condition_sets' = DictAssign(condition_sets, symbol, set)
       ELSE UNCHANGED condition_sets
    /\ UNCHANGED <<symbol_data, backtest_alerts, runs>>
    /\ UNCHANGED livevars
    /\ ApiFrame

\* BacktestAlertScanner.get_alerts_for_symbol
CallGetAlerts(symbol) ==
    /\ call' = Called("get_alerts_for_symbol", symbol, ~InAlerts(symbol))
    /\ UNCHANGED btvars
    /\ UNCHANGED livevars
    /\ ApiFrame

ApiNext ==
    \/ \E symbol \in CallSymbols, f \in ApiFeed : CallUpdate(symbol, f[1], f[2])
    \/ \E symbol \in CallSymbols, set \in CustomConditionSets : CallSetConditions(symbol, set)
    \/ \E symbol \in CallSymbols, candle \in ApiCandles : CallAddData(symbol, candle)
    \/ \E symbol \in CallSymbols, tick \in BacktestTicks : CallAddIntradayTick(symbol, tick)
    \/ \E symbol \in CallSymbols, set \in CustomConditionSets : CallBacktestSetConditions(symbol, set)
    \/ \E symbol \in CallSymbols : CallGetAlerts(symbol)

(***************************************************************************)
(* Condition sets as objects: set_conditions keeps the caller's object     *)
(* (src/realtime_scanner.py set_conditions, _initialize_monitors)          *)
(***************************************************************************)
\* The condition set objects: the default one _initialize_monitors builds
\* for every symbol, named after the symbol, and one the caller has built
CallerObjects == {"custom"}
SetObjects == Symbols \cup CallerObjects

AliasFeed == {<<100, 0>>, <<101, 10>>, <<102, 30>>}

\* set_ref[s] is the object monitors[s].condition_set refers to;
\* monitors[s].condition_set shows that object's content.  acted holds the
\* symbol the last call was for and the monitors of the other symbols as
\* they were when it was called.
NotActed == [symbol |-> "", others |-> <<>>]

Others(symbol) == [x \in Symbols \ {symbol} |-> monitors[x]]

AliasInit ==
    /\ set_ref = [s \in Symbols |-> s]
    /\ set_objects = [o \in SetObjects |->
                         IF o \in CallerObjects
                         THEN add_condition(AlertConditionSet, Condition("TwoStepMomentum"))
                         ELSE DefaultConditionSet]
    /\ acted = NotActed

\* The monitors after the object of symbol s has become set: every monitor
\* that refers to the same object shows it
WithObject(ms, s, set) ==
    [x \in Symbols |->
        IF set_ref[x] = set_ref[s] THEN [ms[x] EXCEPT !.condition_set = set] ELSE ms[x]]

\* set_conditions(symbol, condition_set): self.monitors[symbol].condition_set
\* = condition_set, the object itself
RefSetConditions(s, o) ==
    /\ set_ref' = [set_ref EXCEPT ![s] = o]
    /\ monitors' = [monitors EXCEPT ![s].condition_set = set_objects[o]]
    /\ acted' = [symbol |-> s, others |-> Others(s)]
    /\ UNCHANGED set_objects
    /\ UNCHANGED <<now, update_count, alerts, last_eval, ingested, ops>>
    /\ AliasFrame

\* update(symbol, ...): check_all writes the reasons into the object the
\* monitor refers to
RefUpdate(s, price, volume) ==
    \E m \in {update_market_data(monitors[s], price, volume, now)} :
    \E c \in {check_conditions(m, now)} :
       /\ ops < MaxOps
       /\ ops' = ops + 1
       /\ monitors' = WithObject([monitors EXCEPT ![s] = c.monitor], s,
                                 c.monitor.condition_set)
       /\ set_objects' = [set_objects EXCEPT ![set_ref[s]] = c.monitor.condition_set]
       /\ update_count' = update_count + 1
       /\ alerts' = IF c.result.triggered
                    THEN Append(alerts, [symbol |-> s, time |-> now, price |-> price,
                                         reasons |-> c.result.reasons])
                    ELSE alerts
       /\ last_eval' = [last_eval EXCEPT ![s] = Evaluation(m, c, now)]
       /\ ingested' = [ingested EXCEPT ![s] =
              Append(@, <<price, VolumeIncrement(monitors[s], volume)>>)]
       /\ acted' = [symbol |-> s, others |-> Others(s)]
       /\ UNCHANGED <<now, set_ref>>
       /\ AliasFrame

\* The wall clock advances
RefTick(d) ==
    /\ now + d <= Seconds(10)
    /\ now' = now + d
    /\ acted' = NotActed
    /\ UNCHANGED <<monitors, update_count, alerts, last_eval, ingested, ops>>
    /\ UNCHANGED <<set_ref, set_objects>>
    /\ AliasFrame

AliasNext ==
    \/ \E d \in TickSteps : RefTick(d)
    \/ \E s \in Symbols, o \in CallerObjects : RefSetConditions(s, o)
    \/ \E s \in Symbols, f \in AliasFeed : RefUpdate(s, f[1], f[2])

(***************************************************************************)
(* Alert callbacks (src/realtime_scanner.py): on_alert registers, update   *)
(* dispatches an alert through _trigger_alert.                             *)
(***************************************************************************)
MaxCallbacks == 2

\* The callbacks a caller registers: one that returns, one that raises an
\* Exception
Callbacks == {[name |-> "handler", raises |-> FALSE], [name |-> "faulty", raises |-> TRUE]}

\* The <<price, cumulative volume>> pairs delivered while callbacks are set
DispatchFeed == {<<100, 10>>, <<101, 10>>, <<102, 30>>}

NoDispatch == [count |-> 0, registered |-> <<>>, calls |-> <<>>, escaped |-> FALSE]

CallbacksInit ==
    /\ alert_callbacks = <<>>
    /\ dispatched = NoDispatch

\* A callback loop without the try block: the first exception leaves it
RECURSIVE CallbackLoop_Unprotected(_, _, _)
CallbackLoop_Unprotected(callbacks, i, calls) ==
    IF i > Len(callbacks) THEN [calls |-> calls, escaped |-> FALSE]
    ELSE IF callbacks[i].raises
    THEN [calls |-> Append(calls, [callback |-> i, caught |-> FALSE]), escaped |-> TRUE]
    ELSE CallbackLoop_Unprotected(callbacks, i + 1,
                                  Append(calls, [callback |-> i, caught |-> FALSE]))

\* The callback loop of _trigger_alert from callback i on: each callback is
\* called inside try / except Exception, which catches what it raises.
\* calls lists the registrations called and whether their exception was
\* caught, escaped tells whether an exception left the loop.
RECURSIVE CallbackLoop(_, _, _)
CallbackLoop(callbacks, i, calls) ==
    IF i > Len(callbacks) THEN [calls |-> calls, escaped |-> FALSE]
    ELSE CallbackLoop(callbacks, i + 1,
                      Append(calls, [callback |-> i, caught |-> callbacks[i].raises]))

\* _trigger_alert: the dispatch of one alert, the count-th of the scanner
trigger_alert(callbacks, count) ==
    LET loop == CallbackLoop(callbacks, 1, <<>>)
    IN [count |-> count, registered |-> callbacks, calls |-> loop.calls,
        escaped |-> loop.escaped]

\* RealtimeAlertScanner.on_alert
OnAlert(callback) ==
    /\ Len(alert_callbacks) < MaxCallbacks
    /\ alert_callbacks' = Append(alert_callbacks, callback)
    /\ UNCHANGED <<livevars, dispatched>>
    /\ DispatchFrame

\* RealtimeAlertScanner.update with the dispatch of its alert
DispatchUpdate(s, price, volume) ==
    /\ ScannerUpdate(s, price, volume)
    /\ dispatched' = IF alerts' # alerts
                     THEN trigger_alert(alert_callbacks, Len(alerts'))
                     ELSE dispatched
    /\ UNCHANGED alert_callbacks
    /\ DispatchFrame

CallbacksNext ==
    \/ \E d \in TickSteps : Tick(d)
    \/ \E s \in FedSymbols, set \in CustomConditionSets : SetConditions(s, set)
    \/ \E callback \in Callbacks : OnAlert(callback)
    \/ \E s \in FedSymbols, f \in DispatchFeed : DispatchUpdate(s, f[1], f[2])

(***************************************************************************)
(* Specifications                                                          *)
(***************************************************************************)
\* The threads at rest
ConcIdle ==
    /\ lock = [s \in Symbols |-> Free]
    /\ pc = [t \in Threads |-> "idle"]
    /\ local = [t \in Threads |-> NoLocal]

\* A condition set, a live scanner and a backtest scanner just constructed
Init == CSInit /\ LiveInit /\ ConcIdle /\ BTInit /\ PLIdle /\ MainInit /\ FeedIdle /\ ApiIdle /\ AliasInit /\ CallbacksInit

\* A live scanner that has received its first ticks, with idle threads
InitConc == CSInit /\ ConcInit /\ BTInit /\ PLIdle /\ MainInit /\ FeedIdle /\ ApiIdle /\ AliasInit /\ CallbacksInit

\* A backtest scanner with data loaded, before run_backtest and the scenarios
InitPL == CSInit /\ LiveInit /\ ConcIdle /\ PLInit /\ MainInit /\ FeedIdle /\ ApiIdle /\ AliasInit /\ CallbacksInit

SpecCS == Init /\ [][CSNext]_vars

Spec == Init /\ [][LiveNext]_vars

SpecIngest == Init /\ [][IngestNext]_vars

SpecConc == InitConc /\ [][ConcNext]_vars

SpecBacktest == Init /\ [][BacktestNext]_vars

SpecPL == InitPL /\ [][PLNext]_vars

SpecMain == Init /\ [][MainNext]_vars

\* A scanner whose symbols are subscribed at the data app
InitFeed == CSInit /\ LiveInit /\ ConcIdle /\ BTInit /\ PLIdle /\ Subscribed /\ FeedIdle /\ ApiIdle /\ AliasInit /\ CallbacksInit

SpecFeed == InitFeed /\ [][FeedNext]_vars

SpecApi == Init /\ [][ApiNext]_vars

SpecAlias == Init /\ [][AliasNext]_vars

SpecConfig == Init /\ [][ConfigNext]_vars

SpecWindows == Init /\ [][WindowsNext]_vars

SpecHistory == Init /\ [][HistoryNext]_vars

SpecLifecycle == Init /\ [][LifecycleNext]_vars

SpecCallbacks == Init /\ [][CallbacksNext]_vars

(***************************************************************************)
(* Claims about the condition set                                          *)
(***************************************************************************)
GatePasses(data) == PriceAboveVWAP_check(Condition("PriceAboveVWAP"), data).ret
SpreadPasses(data) == passes_spread_filter(data.bid, data.ask, data.price)
EveryMemberTriggers(set, data) ==
    \A i \in 1..Len(set.conditions) :
        LET o == check(set.conditions[i], data) IN o.ret /\ ~o.raised
HasOtherMember(set) ==
    \E i \in 1..Len(set.conditions) : set.conditions[i].kind # "PriceAboveVWAP"

\* C2 (as stated): check_all returns True iff the price-above-VWAP gate and the
\* spread filter pass and every member condition triggers, for every member
\* list and every snapshot.
C2_AsStated ==
    cs_ret # "none" =>
        (cs_ret = "True" <=>
            /\ GatePasses(cs_data)
            /\ SpreadPasses(cs_data)
            /\ EveryMemberTriggers(condition_set, cs_data))

\* C2 (amended): check_all returns True iff the price-above-VWAP gate and the
\* spread filter pass, every member condition triggers, and the set has at
\* least one member that is not a PriceAboveVWAPCondition.
C2_TriggersIffGatesAndMembers ==
    cs_ret # "none" =>
        (cs_ret = "True" <=>
            /\ GatePasses(cs_data)
            /\ SpreadPasses(cs_data)
            /\ EveryMemberTriggers(condition_set, cs_data)
            /\ HasOtherMember(condition_set))

\* C2 witness: a set of two members returned True on a snapshot with a quoted
\* spread.
C2_Witness ==
    /\ cs_ret = "True"
    /\ Len(condition_set.conditions) = 2
    /\ cs_data.bid > 0

\* C3: after a check_all that returned False the recorded reasons are empty.
C3_NoReasonsAfterFalse ==
    cs_ret = "False" => get_trigger_summary(condition_set) = <<>>

(***************************************************************************)
(* Claims about the live monitor                                           *)
(***************************************************************************)
\* C1: an evaluation on which the condition set triggers, run D after the
\* evaluation that reported the last alert, reports an alert iff D >= cooldown
\* (so of the two exactly one alerts when D < cooldown, and both when
\* D >= cooldown, D = cooldown included).
C1_CooldownBoundary ==
    \A s \in Symbols :
        LET e == last_eval[s]
        IN (e.set_ret = "True" /\ e.prev_alert # None) =>
               (e.triggered <=> e.time - e.prev_alert >= Seconds(alert_cooldown_seconds))

\* C4: no exception escapes an evaluation.
C4_NoExceptionEscapes == \A s \in Symbols : ~last_eval[s].raised

AllPositive(samples) == \A i \in 1..Len(samples) : samples[i][2] > 0
SumPV(samples) == SumSeq([i \in 1..Len(samples) |-> samples[i][1] * samples[i][2]])
SumV(samples) == SumSeq([i \in 1..Len(samples) |-> samples[i][2]])

\* C10: after ingests whose volume increments are all positive the VWAP is
\* sum(price * increment) / sum(increment) over all ingested samples, and
\* while the cumulative volume is 0 the VWAP is the undefined sentinel.
C10_VWAPIsCumulative ==
    \A s \in Symbols :
        LET m == monitors[s]
            g == ingested[s]
        IN /\ m.cumulative_volume = 0 => m.last_vwap = NoVWAP
           /\ (g # <<>> /\ AllPositive(g)) =>
                  /\ m.last_vwap # NoVWAP
                  /\ m.last_vwap.num * SumV(g) = SumPV(g) * m.last_vwap.den

\* C10 witness: three samples of positive increment and different prices
\* have been ingested, the day's volume standing at 30.
C10_Witness ==
    \E s \in Symbols :
        /\ Len(ingested[s]) = 3
        /\ AllPositive(ingested[s])
        /\ ingested[s][1][1] # ingested[s][3][1]
        /\ monitors[s].last_volume = 30
        /\ update_count = 0

(***************************************************************************)
(* Claims about the threads                                                *)
(***************************************************************************)
InEvaluation(t) ==
    pc[t] \in {"check_all", "members", "cooldown", "last_alert_time",
               "get_trigger_summary"}

NoConcurrentEvaluation ==
    \A t1, t2 \in Threads :
        (t1 # t2 /\ local[t1].symbol = local[t2].symbol) =>
            ~(InEvaluation(t1) /\ InEvaluation(t2))

NoTwoAlertsWithinCooldown ==
    \A i, j \in 1..Len(alerts) :
        (i < j /\ alerts[i].symbol = alerts[j].symbol) =>
            alerts[j].time - alerts[i].time >= Seconds(alert_cooldown_seconds)

ReasonsOfEmitter ==
    \A i \in 1..Len(alerts) : alerts[i].reasons = alerts[i].evaluated

\* C5: two evaluations of one symbol never run at the same time, no two alerts
\* of one symbol are emitted within one cooldown period, and the reasons of
\* an alert are those its own evaluation recorded.
C5_EvaluationExclusive ==
    /\ NoConcurrentEvaluation
    /\ NoTwoAlertsWithinCooldown
    /\ ReasonsOfEmitter

\* C6: an observer call never waits for the monitor's lock while holding that
\* lock itself, so it terminates and leaves the lock released.
C6_ObserversReleaseLock ==
    \A t \in Threads :
        pc[t] = "get_volume_spike_ratio" => lock[local[t].symbol] # t

(***************************************************************************)
(* Claims about the backtest                                               *)
(***************************************************************************)
\* C7: two runs that replay the same candles under the same conditions return
\* the same alert list for every symbol.
C7_ReplayDeterministic ==
    \A i, j \in 1..Len(runs) :
        (runs[i].symbol_data = runs[j].symbol_data
            /\ runs[i].conditions = runs[j].conditions) =>
            runs[i].returned = runs[j].returned

\* C8: no two alerts that one run creates for one symbol are closer together
\* than the cooldown.
C8_BacktestCooldown ==
    \A r \in 1..Len(runs) : \A s \in Symbols :
        \A i, j \in 1..Len(runs[r].created[s]) :
            i < j => runs[r].created[s][j].timestamp - runs[r].created[s][i].timestamp
                        >= Seconds(alert_cooldown_seconds)

CandlePV(candles, i) ==
    SumSeq([k \in 1..i |-> candles[k].close * candles[k].volume])
CandleVolume(candles, i) == SumSeq([k \in 1..i |-> candles[k].volume])

\* C9: the VWAP of the snapshot evaluated at a candle is the cumulative
\* close * volume over the cumulative volume of the candles up to it, and the
\* vendor VWAP of the candle only when that cumulative volume is zero.
C9_SnapshotVWAPCumulative ==
    \A r \in 1..Len(runs) : \A s \in Symbols :
        \A i \in 1..Len(runs[r].vwaps[s]) :
            LET candles == runs[r].sorted_candles[s]
                vwap == runs[r].vwaps[s][i]
            IN IF CandleVolume(candles, i) > 0
               THEN vwap.num * CandleVolume(candles, i) = CandlePV(candles, i) * vwap.den
               ELSE vwap = Quot(candles[i].vwap, 1)

(***************************************************************************)
(* Claims about ingest, frames and rejected calls                          *)
(***************************************************************************)
\* C11: every volume increment kept in a monitor's volume history is
\* non-negative (a cumulative volume below the last one seen is taken as the
\* increment itself).
C11_IncrementsNonNegative ==
    \A s \in Symbols :
        \A i \in 1..Len(monitors[s].volume_history) :
            monitors[s].volume_history[i][2] >= 0

(***************************************************************************)
(* Claims about the P&L simulator and the scenario loop                    *)
(***************************************************************************)
HitsTakeProfit(candle, price, tp) == candle.high * 100 >= price * (100 + tp)
HitsStopLoss(candle, price, sl) == candle.low * 100 <= price * (100 - sl)
TouchingAfter(candles, alert, tp, sl) ==
    {j \in 1..Len(candles) :
        /\ candles[j].timestamp > alert.timestamp
        /\ \/ HitsTakeProfit(candles[j], alert.price, tp)
           \/ HitsStopLoss(candles[j], alert.price, sl)}
FirstOf(S) == CHOOSE j \in S : \A k \in S : j <= k

\* The trade is what the first touching candle after the alert says it is
ScoredAsSpecified(trade, alert, candles, tp, sl) ==
    LET touching == TouchingAfter(candles, alert, tp, sl)
    IN /\ trade.timestamp = alert.timestamp
       /\ trade.entry.num = alert.price * trade.entry.den
       /\ IF touching = {}
          THEN /\ trade.outcome = "OPEN"
               /\ trade.exit = trade.entry
               /\ trade.exit_time = None
          ELSE LET candle == candles[FirstOf(touching)]
               IN /\ trade.exit_time = candle.timestamp
                  /\ IF HitsTakeProfit(candle, alert.price, tp)
                     THEN /\ trade.outcome = "WIN"
                          /\ trade.exit.num * 100 = alert.price * (100 + tp) * trade.exit.den
                     ELSE /\ trade.outcome = "LOSS"
                          /\ trade.exit.num * 100 = alert.price * (100 - sl) * trade.exit.den

\* C12: in every scenario every alert has exactly one trade, and the trade is
\* closed by the first candle strictly after the alert that touches a
\* bracket: WIN at the take-profit price when its high reaches it (also when
\* its low reaches the stop), otherwise LOSS at the stop price; with no such
\* candle the trade is OPEN and exits at the entry price.
C12_FirstTouchDecides ==
    \A n \in 1..Len(scenarios) : \A s \in Symbols :
        LET sc == scenarios[n]
        IN /\ Len(sc.pl_results[s]) = Len(sc.alerts[s])
           /\ \A k \in 1..Len(sc.alerts[s]) :
                 ScoredAsSpecified(sc.pl_results[s][k], sc.alerts[s][k],
                                   sc.candles[s], sc.tp, sc.sl)

\* A trade won on a candle that touches both brackets, after a candle that
\* touches none, and in another scenario a trade left open
C12_Witness ==
    /\ \E n \in 1..Len(scenarios) : \E s \in Symbols :
          LET sc == scenarios[n]
          IN \E k \in 1..Len(sc.pl_results[s]) :
                /\ sc.pl_results[s][k].outcome = "WIN"
                /\ \E j \in 2..Len(sc.candles[s]) :
                      /\ sc.candles[s][j].timestamp = sc.pl_results[s][k].exit_time
                      /\ HitsStopLoss(sc.candles[s][j], sc.alerts[s][k].price, sc.sl)
                      /\ sc.candles[s][j - 1].timestamp > sc.alerts[s][k].timestamp
    /\ \E n \in 1..Len(scenarios) : \E s \in Symbols :
          \E k \in 1..Len(scenarios[n].pl_results[s]) :
              /\ scenarios[n].pl_results[s][k].outcome = "OPEN"
              /\ scenarios[n].pl_results[s][k].timestamp
                     < scenarios[n].candles[s][Len(scenarios[n].candles[s])].timestamp

RECURSIVE SumNetPL(_, _)
SumNetPL(trades, k) ==
    IF k = 0 THEN Reduced(0, 1) ELSE QAdd(SumNetPL(trades, k - 1), trades[k].net_pl)

\* C13: in every scenario the balance of a symbol after its k-th alert is the
\* initial balance plus the net P&L of its first k trades, whatever scenarios
\* ran before, and the balance read at the end is the one after the last
\* trade.
C13_BalanceAccumulatesFromInitial ==
    \A n \in 1..Len(scenarios) : \A s \in Symbols :
        LET trades == scenarios[n].pl_results[s]
        IN /\ \A k \in 1..Len(trades) :
                 trades[k].balance = QAdd(initial_asset, SumNetPL(trades, k))
           /\ scenarios[n].final_asset[s] =
                 QAdd(initial_asset, SumNetPL(trades, Len(trades)))
           /\ n = Len(scenarios) => current_assets[s] = scenarios[n].final_asset[s]

\* A second scenario with two trades or more, run after a scenario that left
\* a balance other than the initial one
C13_Witness ==
    /\ Len(scenarios) = 2
    /\ \E s \in Symbols :
          /\ scenarios[1].final_asset[s] # initial_asset
          /\ Len(scenarios[2].pl_results[s]) >= 2
          /\ scenarios[2].final_asset[s] # scenarios[1].final_asset[s]

(***************************************************************************)
(* Claims about the live program                                           *)
(***************************************************************************)
\* C14: once the live loop has terminated, every subscription made with
\* subscribe_realtime_data has been unsubscribed: no symbol is left in the
\* data app's realtime callbacks.
C14_TerminatedMeansUnsubscribed ==
    main_pc = "terminated" =>
        \A s \in Symbols :
            unsubscribe_realtime_data(realtime_callbacks, s) = realtime_callbacks

C16_WideSpreadBlocksAlert ==
    \A i \in 1..Len(alert_quotes) :
        passes_spread_filter(alert_quotes[i].bid, alert_quotes[i].ask,
                             alert_quotes[i].price)

(***************************************************************************)
(* Claims about the 10-second windows                                      *)
(***************************************************************************)
\* The windows the greedy grouping opens: those closed and the one left open
WindowsOpened(volume_history) ==
    LET st == GroupWindows(SortByKey(volume_history), <<(<<>>), None, 0>>)
    IN Len(st[1]) + (IF st[2] # None THEN 1 ELSE 0)

\* C17: the 10-second windows of a volume history are exhaustive: every
\* window the grouping opens is in the result, so every sample is counted,
\* and the volumes of the windows sum to the volumes of the samples.
C17_WindowsExhaustive ==
    cs_ret # "none" =>
        /\ Len(ten_sec_windows(cs_data.volume_history))
               = WindowsOpened(cs_data.volume_history)
        /\ SumSeq(ten_sec_windows(cs_data.volume_history))
               = SumSeq(Values(cs_data.volume_history))

(***************************************************************************)
(* Claims about calls that name a symbol                                   *)
(***************************************************************************)
\* C18: a call that names a symbol which is not monitored is rejected with
\* an error, and a rejected call changes nothing: the monitors, histories,
\* alerts and update counter, and the backtest's data, condition sets and
\* alerts are what they were when the call was made.
C18_UnmonitoredRejected ==
    /\ (call # NoCall /\ call.symbol \notin Symbols) => call.rejected
    /\ call.rejected => ScannerState = call.before

\* Both scanners hold data and an unmonitored symbol has just been rejected
C18_Witness ==
    /\ call.rejected
    /\ call.symbol = "Z"
    /\ call.op = "backtest.set_conditions"
    /\ update_count > 0
    /\ \E s \in Symbols : symbol_data[s] # <<>>

(***************************************************************************)
(* Claims about state shared between symbols                               *)
(***************************************************************************)
\* C19: a call for one symbol leaves every other symbol as it was: its VWAP
\* state, its histories, its last alert time and the reasons of its
\* condition set, also after set_conditions has been used.
C19_OtherSymbolsUntouched ==
    acted # NotActed =>
        \A x \in Symbols \ {acted.symbol} : monitors[x] = acted.others[x]

(***************************************************************************)
(* Claims about sets with a member removed                                 *)
(***************************************************************************)
\* The set with member i taken out of the list
WithoutMember(set, i) ==
    [set EXCEPT !.conditions =
        SubSeq(set.conditions, 1, i - 1) \o SubSeq(set.conditions, i + 1, Len(set.conditions))]

\* C20 (as stated): when check_all has returned True, the set without any one
\* of its members returns False on the same snapshot.
C20_AsStated ==
    cs_ret = "True" =>
        \A i \in 1..Len(condition_set.conditions) :
            check_all(WithoutMember(condition_set, i), cs_data).ret = "False"

\* C20 (amended): when check_all has returned True, the set without one of its
\* members returns False on the same snapshot exactly when no member other
\* than a PriceAboveVWAPCondition is left, and True otherwise.
C20_RemovalFlipsOnlyWhenNoneLeft ==
    cs_ret = "True" =>
        \A i \in 1..Len(condition_set.conditions) :
            /\ check_all(WithoutMember(condition_set, i), cs_data).ret \in {"True", "False"}
            /\ check_all(WithoutMember(condition_set, i), cs_data).ret = "False"
                   <=> ~HasOtherMember(WithoutMember(condition_set, i))

\* A set of two members that returned True: without the one it returns
\* False, without the other it still returns True
C20_Witness ==
    /\ cs_ret = "True"
    /\ Len(condition_set.conditions) = 2
    /\ check_all(WithoutMember(condition_set, 1), cs_data).ret = "True"
    /\ check_all(WithoutMember(condition_set, 2), cs_data).ret = "False"

(***************************************************************************)
(* Claims about configuration                                              *)
(***************************************************************************)
\* Whether every parameter a condition was constructed with is positive
PositiveParameters(c) ==
    CASE c.kind = "TwoStepMomentum" -> c.t1 > 0 /\ c.t2 > 0 /\ c.window > 0
      [] c.kind = "VolumeSpike10s" -> c.spike_threshold > 0
      [] c.kind = "VolumeConfirmation" -> c.multiplier > 0
      [] OTHER -> TRUE

\* C21: a condition with a non-positive threshold or window is rejected when
\* it is constructed, so a condition set never evaluates (and never triggers
\* on) a member that holds such a value.
C21_BadConfigurationRejected ==
    cs_ret = "True" =>
        \A i \in 1..Len(condition_set.conditions) :
            PositiveParameters(condition_set.conditions[i])

(***************************************************************************)
(* Claims about the reasons of an alert                                    *)
(***************************************************************************)
\* The reasons the price-above-VWAP gate writes when it passes
GateReasonTexts == {"VWAP N/A (0.0)", "Price > VWAP"}

GateFirstLive ==
    \A i \in 1..Len(alerts) :
        /\ alerts[i].reasons # <<>>
        /\ alerts[i].reasons[1][1] \in GateReasonTexts
        /\ \A k \in 2..Len(alerts[i].reasons) : alerts[i].reasons[k][1] \notin GateReasonTexts

GateFirstBacktest ==
    \A r \in 1..Len(runs) : \A s \in Symbols :
        \A i \in 1..Len(runs[r].created[s]) :
            LET reasons == runs[r].created[s][i].conditions_triggered
            IN /\ reasons # <<>>
               /\ reasons[1][2][1] \in GateReasonTexts

\* C22: every emitted alert, live or backtest, carries the gate's reason
\* first and after it the members' reasons in the order the members were
\* added.
C22_ReasonsGateFirst == GateFirstLive /\ GateFirstBacktest

(***************************************************************************)
(* Claims about the volume conditions                                      *)
(***************************************************************************)
\* The partition of a volume history into 10-second buckets: every bucket
\* the greedy grouping opens, the last one included whatever its volume.
Buckets(volume_history) ==
    LET st == GroupWindows(SortByKey(volume_history), <<(<<>>), None, 0>>)
    IN IF st[2] # None THEN Append(st[1], st[3]) ELSE st[1]

\* ratio >= threshold for the last bucket against the mean of the 20 before it
SpikeOnBuckets(b, threshold) ==
    LET n == Len(b)
        past == SumSeq(SubSeq(b, n - PastWindows, n - 1))
    IN /\ n >= PastWindows + 1
       /\ past > 0
       /\ b[n] * PastWindows >= threshold * past

\* A set whose only member is of the given class has been evaluated on a
\* snapshot that passes both gates, so that the set returns what the member
\* returned.
OnlyMemberEvaluated(kind) ==
    /\ cs_ret \in {"True", "False"}
    /\ Len(condition_set.conditions) = 1
    /\ condition_set.conditions[1].kind = kind
    /\ GatePasses(cs_data)
    /\ SpreadPasses(cs_data)

\* C23: VolumeSpike triggers iff the history has at least 21 buckets and the
\* last bucket of the partition (the one holding the most recent sample) is
\* at least threshold times the mean of the 20 buckets before it.
C23_SpikeOnLastBucket ==
    OnlyMemberEvaluated("VolumeSpike10s") =>
        (cs_ret = "True" <=>
            SpikeOnBuckets(Buckets(cs_data.volume_history),
                           condition_set.conditions[1].spike_threshold))

\* The last two buckets each above multiplier times the mean of the 20
\* buckets before those two, that mean not being zero
ConfirmationOnBuckets(b, multiplier) ==
    LET n == Len(b)
        past == SumSeq(SubSeq(b, n - PastWindows - 1, n - 2))
    IN /\ n >= PastWindows + 2
       /\ past > 0
       /\ b[n] * PastWindows > multiplier * past
       /\ b[n - 1] * PastWindows > multiplier * past

\* C24: VolumeConfirmation's verdict is the one computed on the 10-second
\* buckets of the history: it triggers iff there are at least 22 buckets and
\* the last two each exceed multiplier times the mean of the 20 before them.
C24_ConfirmationOnBuckets ==
    OnlyMemberEvaluated("VolumeConfirmation") =>
        (cs_ret = "True" <=>
            ConfirmationOnBuckets(Buckets(cs_data.volume_history),
                                  condition_set.conditions[1].multiplier))

(***************************************************************************)
(* Claims about the price-above-VWAP gate                                  *)
(***************************************************************************)
\* A snapshot carries a VWAP when the field holds a positive number
VWAPAvailable(data) == data.vwap # NoVWAP /\ data.vwap.num > 0

PriceAbove(data) == data.price * data.vwap.den > data.vwap.num

\* C25: the gate passes iff VWAP is unavailable or price > vwap, and a
\* check_all on a snapshot with a VWAP and price <= vwap returns False,
\* leaves every member as it was and records no reason.
C25_GateDecides ==
    [][cs_ret' # "none" =>
          /\ GatePasses(cs_data') <=> (~VWAPAvailable(cs_data') \/ PriceAbove(cs_data'))
          /\ (VWAPAvailable(cs_data') /\ ~PriceAbove(cs_data')) =>
                 /\ cs_ret' = "False"
                 /\ condition_set'.conditions = condition_set.conditions
                 /\ condition_set'.triggered_reasons = <<>>]_vars

(***************************************************************************)
(* Claims about TwoStepMomentum                                            *)
(***************************************************************************)
\* The samples of a history with lo <= timestamp <= hi, in the history's order
SamplesBetween(h, lo, hi) == SelectSeq(h, LAMBDA e : lo <= e[1] /\ e[1] <= hi)

\* The two sub-windows [t-2W, t-W] and [t-W, t] of a snapshot, each widened
\* by the jitter buffer, and the samples at t-2W
FirstWindow(c, data) ==
    SamplesBetween(data.price_history, data.timestamp - 2 * Seconds(c.window) - buffer,
                   data.timestamp - Seconds(c.window) + buffer)
SecondWindow(c, data) ==
    SamplesBetween(data.price_history, data.timestamp - Seconds(c.window) - buffer,
                   data.timestamp + buffer)
SamplesAtStart(c, data) ==
    SamplesBetween(data.price_history, data.timestamp - 2 * Seconds(c.window) - buffer,
                   data.timestamp - 2 * Seconds(c.window) + buffer)

\* The current price is at least every price observed in the 10 s before
\* the snapshot time
AtRollingHigh(data) ==
    \A k \in 1..Len(data.price_history) :
        LET e == data.price_history[k]
        IN (data.timestamp - Seconds(10) - buffer <= e[1] /\ e[1] < data.timestamp)
               => data.price >= e[2]

\* (to - from) / from * 100 >= t, for t in tenths of a percent
Cleared(from, to, t) == 1000 * to - 1000 * from >= t * from

\* C26: with samples in both sub-windows TwoStepMomentum triggers iff
\* r1 >= t1, r2 >= t2 and the current price is at least the highest price
\* observed in the preceding 10 seconds.
C26_MomentumGranular ==
    LET c == condition_set.conditions[1]
        w1 == FirstWindow(c, cs_data)
        w2 == SecondWindow(c, cs_data)
    IN (OnlyMemberEvaluated("TwoStepMomentum") /\ w1 # <<>> /\ w2 # <<>>) =>
           (cs_ret = "True" <=>
               /\ Cleared(w1[1][2], w1[Len(w1)][2], c.t1)
               /\ Cleared(w2[1][2], cs_data.price, c.t2)
               /\ AtRollingHigh(cs_data))

\* The coarse check: a sample at t-2W, a total return from it to the current
\* price of at least t1 + t2, and the current price at the rolling high
CoarseAsSpecified(c, data) ==
    /\ SamplesAtStart(c, data) # <<>>
    /\ Cleared(SamplesAtStart(c, data)[1][2], data.price, c.t1 + c.t2)
    /\ AtRollingHigh(data)

SubWindowEmpty(c, data) == FirstWindow(c, data) = <<>> \/ SecondWindow(c, data) = <<>>

\* C27 (as stated): when a sub-window has no samples TwoStepMomentum triggers
\* iff the total return from the price at t-2W to the current price is at
\* least t1 + t2 and the current price is at the rolling high.
C27_AsStated ==
    LET c == condition_set.conditions[1]
    IN (OnlyMemberEvaluated("TwoStepMomentum") /\ SubWindowEmpty(c, cs_data)) =>
           (cs_ret = "True" <=> CoarseAsSpecified(c, cs_data))

\* C27 (amended): the same for a history of at least 2 samples.
C27_CoarseFallback ==
    LET c == condition_set.conditions[1]
    IN (OnlyMemberEvaluated("TwoStepMomentum") /\ SubWindowEmpty(c, cs_data)
            /\ Len(cs_data.price_history) >= 2) =>
           (cs_ret = "True" <=> CoarseAsSpecified(c, cs_data))

\* C27 witness: the condition has triggered through the fallback, on a
\* history without a sample in the second window.
C27_Witness ==
    /\ OnlyMemberEvaluated("TwoStepMomentum")
    /\ cs_ret = "True"
    /\ SecondWindow(condition_set.conditions[1], cs_data) = <<>>
    /\ Len(cs_data.price_history) >= 2

(***************************************************************************)
(* Claims about insufficient history                                       *)
(***************************************************************************)
\* The mean of the 20 entries before the last skip entries of a list is zero
ZeroAverage(b, skip) ==
    /\ Len(b) >= PastWindows + skip
    /\ SumSeq(SubSeq(b, Len(b) - PastWindows - skip + 1, Len(b) - skip)) = 0

\* A set of one windowed member has been evaluated on a snapshot that passes
\* both gates
WindowedMemberEvaluated ==
    /\ cs_ret # "none"
    /\ Len(condition_set.conditions) = 1
    /\ condition_set.conditions[1].kind \in WindowedKinds
    /\ GatePasses(cs_data)
    /\ SpreadPasses(cs_data)

\* The volume conditions lack samples: fewer than 21 samples or buckets or a
\* zero average for VolumeSpike, fewer than 22 samples or a zero average for
\* VolumeConfirmation
VolumeInsufficient(c, data) ==
    \/ /\ c.kind = "VolumeSpike10s"
       /\ \/ Len(data.volume_history) < PastWindows + 1
          \/ Len(ten_sec_windows(data.volume_history)) < PastWindows + 1
          \/ ZeroAverage(ten_sec_windows(data.volume_history), 1)
    \/ /\ c.kind = "VolumeConfirmation"
       /\ \/ Len(data.volume_history) < PastWindows + 2
          \/ ZeroAverage(Values(SortByKey(data.volume_history)), 2)

\* C28 (as stated): TwoStepMomentum with fewer than 2 samples or an empty
\* window, and a volume condition that lacks samples, return False and do
\* not raise.
C28_AsStated ==
    LET c == condition_set.conditions[1]
    IN (WindowedMemberEvaluated
            /\ \/ c.kind = "TwoStepMomentum"
                     /\ (Len(cs_data.price_history) < 2 \/ SubWindowEmpty(c, cs_data))
               \/ VolumeInsufficient(c, cs_data)) =>
           cs_ret = "False"

\* C28 (amended): the same with an empty first window for TwoStepMomentum.
C28_InsufficientNotTriggered ==
    LET c == condition_set.conditions[1]
    IN (WindowedMemberEvaluated
            /\ \/ c.kind = "TwoStepMomentum"
                     /\ (Len(cs_data.price_history) < 2 \/ FirstWindow(c, cs_data) = <<>>)
               \/ VolumeInsufficient(c, cs_data)) =>
           cs_ret = "False"

\* C28 witness: VolumeConfirmation has been evaluated on 22 samples that end
\* a silence with a surge (a zero average under two large samples).
C28_Witness ==
    /\ WindowedMemberEvaluated
    /\ condition_set.conditions[1].kind = "VolumeConfirmation"
    /\ Len(cs_data.volume_history) = PastWindows + 2
    /\ ZeroAverage(Values(SortByKey(cs_data.volume_history)), 2)
    /\ cs_data.volume_history[PastWindows + 2][2] > 0
    /\ cs_ret = "False"

(***************************************************************************)
(* Claims about the VWAP accumulator and the histories                     *)
(***************************************************************************)
VWAPState(m) == <<m.cumulative_pv, m.cumulative_volume, m.last_vwap>>

\* C29: a step that ingests one sample of non-positive volume increment
\* leaves cumulative price*volume, cumulative volume and VWAP unchanged, and
\* no ingest or historical load decreases the cumulative volume.
C29_AccumulatorMonotone ==
    [][\A s \in Symbols :
          /\ monitors'[s].cumulative_volume >= monitors[s].cumulative_volume
          /\ (/\ Len(ingested'[s]) = Len(ingested[s]) + 1
              /\ ingested'[s][Len(ingested'[s])][2] <= 0) =>
                 VWAPState(monitors'[s]) = VWAPState(monitors[s])]_vars

\* C29 witness: a sample of negative increment has been ingested after
\* volume had been accumulated, and the accumulator holds the volume of the
\* samples of positive increment.
C29_Witness ==
    \E s \in Symbols :
        /\ Len(ingested[s]) = 3
        /\ ingested[s][3][2] < 0
        /\ monitors[s].cumulative_volume = ingested[s][1][2] + ingested[s][2][2]
        /\ monitors[s].cumulative_volume > 0
        /\ monitors[s].last_volume = 10

\* The last k entries of a list
LastEntries(log, k) == SubSeq(log, Len(log) - k + 1, Len(log))

\* C30: the price history and the volume history hold at most
\* max_history_size entries, namely the most recently appended ones in arrival
\* order, and they have the same length and the same timestamps.
C30_HistoriesBounded ==
    \A s \in Symbols :
        LET m == monitors[s]
            k == IF Len(ingested[s]) < max_history_size THEN Len(ingested[s])
                 ELSE max_history_size
        IN /\ Len(m.price_history) <= max_history_size
           /\ Len(m.volume_history) = Len(m.price_history)
           /\ Keys(m.volume_history) = Keys(m.price_history)
           /\ Len(m.price_history) = k
           /\ \A i \in 1..k :
                  <<m.price_history[i][2], m.volume_history[i][2]>> = LastEntries(ingested[s], k)[i]

\* C30 witness: more samples and bars have been appended than the histories
\* hold, at different times, and the histories are full.
C30_Witness ==
    \E s \in Symbols :
        /\ Len(ingested[s]) > max_history_size
        /\ Len(monitors[s].price_history) = max_history_size
        /\ monitors[s].price_history[1][1] < monitors[s].price_history[max_history_size][1]
        /\ \E i \in 1..Len(ingested[s]) : ingested[s][i][1] = 102
        /\ \E i \in 1..Len(ingested[s]) : ingested[s][i][1] = 100

\* The timestamps of a history do not decrease in buffer order
NonDecreasing(history) ==
    \A i \in 1..(Len(history) - 1) : history[i][1] <= history[i + 1][1]

\* C31: after any sequence of update_market_data and load_historical_intraday
\* calls the timestamps of both histories are non-decreasing in buffer order.
C31_TimestampsNonDecreasing ==
    \A s \in Symbols :
        /\ NonDecreasing(monitors[s].price_history)
        /\ NonDecreasing(monitors[s].volume_history)

\* The snapshot of a monitor holds every sample of its buffers, in arrival order
SnapshotKeepsAll(m) ==
    LET data == get_market_data(m)
    IN /\ data.price_history = m.price_history
       /\ data.volume_history = m.volume_history

\* C32: samples with equal timestamps are all kept: the history the
\* conditions evaluate contains every ingested sample of the buffers in
\* arrival order, so the volume of each is counted.
C32_EqualTimestampsKept ==
    \A s \in Symbols :
        monitors[s].last_price # None => SnapshotKeepsAll(monitors[s])

\* A monitor that has no last price yet
AwaitingData(m) == m.last_price = None

\* An awaiting monitor is as constructed: no sample, no history, no VWAP state
AsConstructed(s) ==
    /\ ingested[s] = <<>>
    /\ monitors[s].price_history = <<>>
    /\ monitors[s].volume_history = <<>>
    /\ monitors[s].cumulative_pv = 0
    /\ monitors[s].cumulative_volume = 0
    /\ monitors[s].last_vwap = NoVWAP

\* An evaluation of s that found the monitor awaiting: not triggered, the
\* condition set not called and left as it was, no alert
AwaitingEvaluation(s) ==
    (AwaitingData(monitors'[s]) /\ last_eval'[s] # last_eval[s])
        => /\ last_eval'[s].set_ret = "none"
           /\ ~last_eval'[s].triggered
           /\ ~last_eval'[s].raised
           /\ monitors'[s] = monitors[s]
           /\ alerts' = alerts

\* C33: a monitor is AwaitingData exactly while no sample has been ingested;
\* there every evaluation returns not-triggered without consulting the
\* condition set; once Live it never returns to AwaitingData.
C33_AwaitingThenLive ==
    /\ [](\A s \in Symbols :
             /\ AwaitingData(monitors[s]) <=> ingested[s] = <<>>
             /\ AwaitingData(monitors[s]) => AsConstructed(s))
    /\ [][\A s \in Symbols :
             /\ AwaitingEvaluation(s)
             /\ ~AwaitingData(monitors[s]) => ~AwaitingData(monitors'[s])]_vars

\* A monitor was evaluated while awaiting, and is Live at a later time
C33_Witness ==
    \E s \in Symbols :
        /\ last_eval[s].time # None
        /\ last_eval[s].set_ret = "none"
        /\ ~AwaitingData(monitors[s])
        /\ now > last_eval[s].time

\* The step evaluated s
Evaluated(s) == last_eval'[s] # last_eval[s]

\* last_alert_time of s moves only in an evaluation that emits, to its time
AlertTimeFrame(s) ==
    /\ (Evaluated(s) /\ ~last_eval'[s].triggered)
           => monitors'[s].last_alert_time = monitors[s].last_alert_time
    /\ (Evaluated(s) /\ last_eval'[s].triggered)
           => monitors'[s].last_alert_time = last_eval'[s].time
    /\ monitors'[s].last_alert_time # monitors[s].last_alert_time
           => (Evaluated(s) /\ last_eval'[s].triggered)

\* A true condition set is suppressed inside the cooldown period of the
\* last emitted alert and alerts again once the period is over
OncePerCooldown(e) ==
    (e.set_ret = "True" /\ e.prev_alert # None)
        => /\ e.time - e.prev_alert > Seconds(alert_cooldown_seconds) => e.triggered
           /\ e.time - e.prev_alert < Seconds(alert_cooldown_seconds) => ~e.triggered

\* C34: an evaluation that emits no alert (not triggered, or suppressed by
\* the cooldown) leaves last_alert_time unchanged, so the cooldown is measured
\* from the last emitted alert and a condition that stays true alerts again
\* after the cooldown period.
C34_CooldownFromLastAlert ==
    /\ [](\A s \in Symbols : OncePerCooldown(last_eval[s]))
    /\ [][\A s \in Symbols : AlertTimeFrame(s)]_vars

\* A condition set that stayed true was suppressed and has alerted again
C34_Witness ==
    \E s \in Symbols :
        /\ last_eval[s].triggered
        /\ last_eval[s].prev_alert # None
        /\ last_eval[s].time - last_eval[s].prev_alert > Seconds(alert_cooldown_seconds)

\* The snapshot a run evaluated at candle i of symbol s
ReplayedSnapshot(run, s, i) ==
    LET sorted_candles == run.sorted_candles[s]
        entries == AllHistoryEntries(sorted_candles)
    IN CandleSnapshot(sorted_candles[i],
           DictOf([k \in 1..Len(entries) |-> <<entries[k].timestamp, entries[k].price>>]),
           DictOf([k \in 1..Len(entries) |-> <<entries[k].timestamp, entries[k].volume>>]))

\* Every sample of the snapshot of candle i is dated at or before the candle
NoLookAhead(run, s) ==
    \A i \in 1..Len(run.sorted_candles[s]) :
        LET data == ReplayedSnapshot(run, s, i)
        IN /\ \A k \in 1..Len(data.price_history) :
                 data.price_history[k][1] <= run.sorted_candles[s][i].timestamp
           /\ \A k \in 1..Len(data.volume_history) :
                 data.volume_history[k][1] <= run.sorted_candles[s][i].timestamp

\* The candles evaluated are the candles of the date, by timestamp
EvaluatedByTimestamp(run, s) ==
    LET sorted_candles == run.sorted_candles[s]
        candles == get_all_candles_for_date(run.symbol_data[s], BacktestDate)
    IN /\ Len(sorted_candles) = Len(candles)
       /\ \A c \in Range(candles) :
              Cardinality({k \in 1..Len(candles) : candles[k] = c})
                  = Cardinality({k \in 1..Len(sorted_candles) : sorted_candles[k] = c})
       /\ \A k \in 1..(Len(sorted_candles) - 1) :
              sorted_candles[k].timestamp <= sorted_candles[k + 1].timestamp

\* The alerts are in non-decreasing timestamp order
AlertsByTimestamp(list) ==
    \A k \in 1..(Len(list) - 1) : list[k].timestamp <= list[k + 1].timestamp

\* C35: run_backtest never looks ahead: the snapshot of a candle holds only
\* samples dated at or before the candle, the candles are evaluated by
\* timestamp whatever order they were added in, and the alerts of each
\* symbol are appended in non-decreasing timestamp order.
C35_NoLookAhead ==
    \A s \in Symbols :
        /\ AlertsByTimestamp(backtest_alerts[s])
        /\ \A r \in 1..Len(runs) :
               /\ NoLookAhead(runs[r], s)
               /\ EvaluatedByTimestamp(runs[r], s)

\* The history of the snapshot holds a sample at the snapshot's timestamp
HasCurrentSample(data) ==
    \E k \in 1..Len(data.price_history) : data.price_history[k][1] = data.timestamp

C37_CallbacksIsolated ==
    /\ dispatched.count = Len(alerts)
    /\ dispatched.count > 0 =>
           /\ Len(dispatched.calls) = Len(dispatched.registered)
           /\ \A i \in 1..Len(dispatched.calls) : dispatched.calls[i].callback = i
           /\ ~dispatched.escaped

\* An alert was dispatched to a callback that raises followed by another
C37_Witness ==
    /\ dispatched.count > 0
    /\ Len(dispatched.registered) >= 2
    /\ dispatched.registered[1].raises
    /\ ~dispatched.registered[2].raises

====
